---------------------------- MODULE Spec2Model ----------------------------
(***************************************************************************)
(* Track A of ACS_Independent_Project: the dense GEMM and sparse SpMM       *)
(* kernels, the dense -> CSR / CSC conversions, the result validator, the  *)
(* benchmark engine that drives them and the experiments main runs.        *)
(*                                                                         *)
(* Floats are modelled by integers (exact arithmetic).  Indices are the     *)
(* program's 0-based indices; a std::vector is a sequence, so element x of  *)
(* the vector is element x + 1 of the sequence.                             *)
(***************************************************************************)
EXTENDS Integers, Sequences, FiniteSets, TLC

VARIABLES
    A,          \* left operand (DenseMatrix)
    B,          \* right operand (DenseMatrix)
    C,          \* output matrix (DenseMatrix)
    op,         \* the last operation applied to the operands
    csr,        \* the CSR encoding of A, once made
    csc,        \* the CSC encoding of A, once made
    writes,     \* how often dense_to_csc wrote each slot of values / row_indices
    ref,        \* validate_results: the reference matrix
    test,       \* validate_results: the matrix under test
    tolerance,  \* validate_results: the tolerance, a fraction num / den
    verdict,    \* validate_results: "none", or the value returned
    omp_threads,\* OpenMP: the thread count set by omp_set_num_threads (0: never set)
    config,     \* run_*_experiment: the ExperimentConfig passed in
    fn,         \* the engine function that is running, or "none"
    pc,         \* run_*_experiment: the statement reached
    trial,      \* run_*_experiment: the loop counter i of the trials
    total_time, \* run_*_experiment: the sum of the timings kept
    timer,      \* run_*_experiment: the PerformanceCounter
    result,     \* run_*_experiment: the ExperimentResult being filled
    trial_log,  \* history: per trial, whether C was zero at timer.start(), the
                \* kernels invoked and the timing measured
    generated,  \* history: the calls of generate_random_dense made by the function
    mpc,        \* main: the statement reached ("none": main is not running)
    exp,        \* main: the number of the experiment reached
    todo,       \* experiment: the configurations still to run
    results,    \* experiment: the vector of results
    files,      \* the CSV files written: name and rows
    measured_memory_bw, \* BenchmarkSuite::measured_memory_bw
    failed,     \* history: the kernel invocations that raised an error
    C_entry,    \* history: C as it was when the kernel was called
    outputs,    \* history: the kernel and the output C of the calls made before
    accesses,   \* history: the loads and stores of the kernel call, in serial order
    loops,      \* the parallel loops of the kernel call that have not started yet
    queue,      \* parallel region: the iterations of the loop no thread has taken yet
    work,       \* parallel region: per thread, the iteration it is running
    completed,  \* parallel region: per thread, the number of operations completed
    reg,        \* parallel region: per thread, the value loaded by a pending update
    writers,    \* history: per cell of C, the iterations of the loop that wrote it
    commands,   \* profiler: the commands read from the command file
    stats_array,\* profiler: the statistics of the measurement runs made so far
    avg_stats,  \* profiler: the averaged statistics
    printed,    \* profiler: the 'Remaining kernel cycles' values written to the report
    ppc         \* profiler: position of main

(***************************************************************************)
(* Bounds of the model and constants of the program                        *)
(***************************************************************************)
MaxM == 2           \* rows of A and C range over 1..MaxM
MaxK == 3           \* columns of A / rows of B range over 1..MaxK
MaxTail == 1        \* N ranges over 1..MaxTail and SimdWidth..SimdWidth+MaxTail
MaxTile == 2        \* tile sizes range over 1..MaxTile, and DefaultTile
MaxConv == 2        \* the conversions are tried on all matrices up to MaxConv x MaxConv
MaxCells == 2       \* the validator is tried on matrices of up to MaxCells cells

SimdWidth == 8      \* lanes of a __m256 register of floats
DefaultTile == 64   \* default tile_size / tile_cols

(***************************************************************************)
(* Library functions used by the code                                      *)
(***************************************************************************)
Min(a, b) == IF a < b THEN a ELSE b

Max(a, b) == IF a > b THEN a ELSE b

Abs(x) == IF x < 0 THEN -x ELSE x

\* for (x = lo; x < hi; x += step) acc = Body(acc, x);
\* (acc = acc has the value of an iteration computed before the next one starts)
ForLoop(Body(_, _), init, lo, hi, step) ==
    LET RECURSIVE go(_, _)
        go(acc, x) == IF x < hi /\ acc = acc THEN go(Body(acc, x), x + step) ELSE acc
    IN  go(init, lo)

(***************************************************************************)
(* DenseMatrix (matrix.h)                                                  *)
(***************************************************************************)
DenseMatrix(r, c) ==
    [rows |-> r, cols |-> c, layout |-> "ROW_MAJOR", data |-> [x \in 1..(r * c) |-> 0]]

\* the linear index of cell (i, j): operator()
Index(Mx, i, j) ==
    IF Mx.layout = "ROW_MAJOR" THEN i * Mx.cols + j ELSE j * Mx.rows + i

At(Mx, i, j) == Mx.data[Index(Mx, i, j) + 1]

Put(Mx, i, j, v) == [Mx EXCEPT !.data[Index(Mx, i, j) + 1] = v]

AddTo(Mx, i, j, v) == [Mx EXCEPT !.data[Index(Mx, i, j) + 1] = @ + v]

\* data.assign(n, v)
Assign(Mx, n, v) == [Mx EXCEPT !.data = [x \in 1..n |-> v]]

(***************************************************************************)
(* AVX2 intrinsics.  A register is a sequence of SimdWidth lanes.  A load   *)
(* of 8 floats starting at element base of the vector reads past the end   *)
(* of the vector when base + 8 > size: those lanes hold junk, a value the   *)
(* caller does not control.                                                *)
(***************************************************************************)
setzero_ps == [l \in 1..SimdWidth |-> 0]

set1_ps(a) == [l \in 1..SimdWidth |-> a]

loadu_ps(Mx, base, junk) ==
    [l \in 1..SimdWidth |-> IF base + l <= Len(Mx.data) THEN Mx.data[base + l] ELSE junk]

fmadd_ps(a, b, c) == [l \in 1..SimdWidth |-> a[l] * b[l] + c[l]]

storeu_ps(Mx, base, v) ==
    [Mx EXCEPT !.data = [x \in 1..Len(Mx.data) |->
        IF x > base /\ x <= base + SimdWidth THEN v[x - base] ELSE Mx.data[x]]]

(***************************************************************************)
(* Dense GEMM kernels (dense_gemm.cpp)                                     *)
(***************************************************************************)
gemm_scalar(a, b, c, transpose_a, transpose_b) ==
    LET M == c.rows
        N == c.cols
        K == a.cols
        Cell(cc, i, j) ==
            LET sum == ForLoop(LAMBDA s, k:
                           s + (IF transpose_a THEN At(a, k, i) ELSE At(a, i, k))
                             * (IF transpose_b THEN At(b, j, k) ELSE At(b, k, j)),
                           0, 0, K, 1)
            IN  Put(cc, i, j, sum)
    IN  ForLoop(LAMBDA ci, i: ForLoop(LAMBDA cj, j: Cell(cj, i, j), ci, 0, N, 1),
                c, 0, M, 1)

gemm_avx2_NoTail(a, b, c, junk) ==
    LET M == c.rows
        N == c.cols
        K == a.cols
        Block(cc, i, j) ==
            LET accum == ForLoop(LAMBDA acc, k:
                             fmadd_ps(set1_ps(At(a, i, k)),
                                      loadu_ps(b, Index(b, k, j), junk), acc),
                             setzero_ps, 0, K, 1)
                remaining == N - j
            IN  IF remaining >= SimdWidth
                THEN storeu_ps(cc, Index(cc, i, j), accum)
                ELSE cc
    IN  ForLoop(LAMBDA ci, i: ForLoop(LAMBDA cj, j: Block(cj, i, j), ci, 0, N, SimdWidth),
                Assign(c, M * N, 0), 0, M, 1)

\* (a variant whose tail copies temp[jj + 1] instead of temp[jj])
gemm_avx2_TailOffByOne(a, b, c, junk) ==
    LET M == c.rows
        N == c.cols
        K == a.cols
        Block(cc, i, j) ==
            LET accum == ForLoop(LAMBDA acc, k:
                             fmadd_ps(set1_ps(At(a, i, k)),
                                      loadu_ps(b, Index(b, k, j), junk), acc),
                             setzero_ps, 0, K, 1)
                remaining == N - j
            IN  IF remaining >= SimdWidth
                THEN storeu_ps(cc, Index(cc, i, j), accum)
                ELSE ForLoop(LAMBDA cd, jj: Put(cd, i, j + jj, accum[jj + 2]),
                             cc, 0, remaining, 1)
    IN  ForLoop(LAMBDA ci, i: ForLoop(LAMBDA cj, j: Block(cj, i, j), ci, 0, N, SimdWidth),
                Assign(c, M * N, 0), 0, M, 1)

gemm_avx2(a, b, c, junk) ==
    LET M == c.rows
        N == c.cols
        K == a.cols
        Block(cc, i, j) ==
            LET accum == ForLoop(LAMBDA acc, k:
                             fmadd_ps(set1_ps(At(a, i, k)),
                                      loadu_ps(b, Index(b, k, j), junk), acc),
                             setzero_ps, 0, K, 1)
                remaining == N - j
            IN  IF remaining >= SimdWidth
                THEN storeu_ps(cc, Index(cc, i, j), accum)
                ELSE ForLoop(LAMBDA cd, jj: Put(cd, i, j + jj, accum[jj + 1]),
                             cc, 0, remaining, 1)
    IN  ForLoop(LAMBDA ci, i: ForLoop(LAMBDA cj, j: Block(cj, i, j), ci, 0, N, SimdWidth),
                Assign(c, M * N, 0), 0, M, 1)

\* gemm_tiled without C.data.assign(M * N, 0.0f)
gemm_tiled_NoAssign(a, b, c, tile_size) ==
    LET M == c.rows
        N == c.cols
        K == a.cols
        Tile(ct, i0, j0) ==
            LET i_end == Min(i0 + tile_size, M)
                j_end == Min(j0 + tile_size, N)
                KBlock(ck, k0) ==
                    LET k_end == Min(k0 + tile_size, K)
                    IN  ForLoop(LAMBDA ci, i:
                            ForLoop(LAMBDA cq, k:
                                ForLoop(LAMBDA cj, j:
                                    AddTo(cj, i, j, At(a, i, k) * At(b, k, j)),
                                    cq, j0, j_end, 1),
                                ci, k0, k_end, 1),
                            ck, i0, i_end, 1)
            IN  ForLoop(LAMBDA ck, k0: KBlock(ck, k0), ct, 0, K, tile_size)
    IN  ForLoop(LAMBDA ci, i0:
            ForLoop(LAMBDA cj, j0: Tile(cj, i0, j0), ci, 0, N, tile_size),
            c, 0, M, tile_size)

gemm_tiled(a, b, c, tile_size) ==
    LET M == c.rows
        N == c.cols
        K == a.cols
        Tile(ct, i0, j0) ==
            LET i_end == Min(i0 + tile_size, M)
                j_end == Min(j0 + tile_size, N)
                KBlock(ck, k0) ==
                    LET k_end == Min(k0 + tile_size, K)
                    IN  ForLoop(LAMBDA ci, i:
                            ForLoop(LAMBDA cq, k:
                                ForLoop(LAMBDA cj, j:
                                    AddTo(cj, i, j, At(a, i, k) * At(b, k, j)),
                                    cq, j0, j_end, 1),
                                ci, k0, k_end, 1),
                            ck, i0, i_end, 1)
            IN  ForLoop(LAMBDA ck, k0: KBlock(ck, k0), ct, 0, K, tile_size)
    IN  ForLoop(LAMBDA ci, i0:
            ForLoop(LAMBDA cj, j0: Tile(cj, i0, j0), ci, 0, N, tile_size),
            Assign(c, M * N, 0), 0, M, tile_size)

\* (a variant whose accumulator starts from zero in every k-block)
process_block_avx2_AlwaysZero(i_start, i_end, j_start, j_end, k_start, k_end, a, b, c, junk) ==
    LET Block(cc, i, j) ==
            LET accum == ForLoop(LAMBDA acc, k:
                             fmadd_ps(set1_ps(At(a, i, k)),
                                      loadu_ps(b, Index(b, k, j), junk), acc),
                             setzero_ps, k_start, k_end, 1)
                remaining == j_end - j
            IN  IF remaining >= SimdWidth
                THEN storeu_ps(cc, Index(cc, i, j), accum)
                ELSE ForLoop(LAMBDA cd, jj: Put(cd, i, j + jj, accum[jj + 1]),
                             cc, 0, remaining, 1)
    IN  ForLoop(LAMBDA ci, i:
            ForLoop(LAMBDA cj, j: Block(cj, i, j), ci, j_start, j_end, SimdWidth),
            c, i_start, i_end, 1)

process_block_avx2(i_start, i_end, j_start, j_end, k_start, k_end, a, b, c, junk) ==
    LET Block(cc, i, j) ==
            LET first == IF k_start = 0
                         THEN setzero_ps
                         ELSE loadu_ps(cc, Index(cc, i, j), junk)
                accum == ForLoop(LAMBDA acc, k:
                             fmadd_ps(set1_ps(At(a, i, k)),
                                      loadu_ps(b, Index(b, k, j), junk), acc),
                             first, k_start, k_end, 1)
                remaining == j_end - j
            IN  IF remaining >= SimdWidth
                THEN storeu_ps(cc, Index(cc, i, j), accum)
                ELSE ForLoop(LAMBDA cd, jj: Put(cd, i, j + jj, accum[jj + 1]),
                             cc, 0, remaining, 1)
    IN  ForLoop(LAMBDA ci, i:
            ForLoop(LAMBDA cj, j: Block(cj, i, j), ci, j_start, j_end, SimdWidth),
            c, i_start, i_end, 1)

gemm_optimized(a, b, c, num_threads, tile_size, junk) ==
    LET M == c.rows
        N == c.cols
        K == a.cols
        Tile(ct, i0, j0) ==
            LET i_end == Min(i0 + tile_size, M)
                j_end == Min(j0 + tile_size, N)
            IN  ForLoop(LAMBDA ck, k0:
                    process_block_avx2(i0, i_end, j0, j_end, k0,
                                       Min(k0 + tile_size, K), a, b, ck, junk),
                    ct, 0, K, tile_size)
    IN  ForLoop(LAMBDA ci, i0:
            ForLoop(LAMBDA cj, j0: Tile(cj, i0, j0), ci, 0, N, tile_size),
            Assign(c, M * N, 0), 0, M, tile_size)

gemm_omp(a, b, c, num_threads) == gemm_scalar(a, b, c, FALSE, FALSE)

gemm_avx2_omp(a, b, c, num_threads, junk) == gemm_avx2(a, b, c, junk)

(***************************************************************************)
(* CSRMatrix, CSCMatrix and the conversions (matrix.h, matrix.cpp)         *)
(***************************************************************************)
CSRMatrix(r, c) ==
    [rows |-> r, cols |-> c, values |-> <<>>, col_indices |-> <<>>,
     row_ptrs |-> [x \in 1..(r + 1) |-> 0]]

CSCMatrix(r, c) ==
    [rows |-> r, cols |-> c, values |-> <<>>, row_indices |-> <<>>,
     col_ptrs |-> [x \in 1..(c + 1) |-> 0]]

\* std::abs(val) > 1e-10f.  A cell holds an integer and 0 < 1e-10 < 1.
IsNonzero_NoAbs(val) == val >= 1

IsNonzero(val) == Abs(val) >= 1

\* (a variant that closes the range of row i before the row is scanned)
dense_to_csr_PtrBeforeRow(dense) ==
    LET Cell(st, i, j) ==
            LET val == At(dense, i, j)
            IN  IF IsNonzero(val)
                THEN [csr |-> [st.csr EXCEPT !.values = Append(@, val),
                                             !.col_indices = Append(@, j)],
                      nnz |-> st.nnz + 1]
                ELSE st
        Row(st, i) ==
            LET done == ForLoop(LAMBDA sj, j: Cell(sj, i, j), st, 0, dense.cols, 1)
            IN  [done EXCEPT !.csr.row_ptrs[i + 2] = st.nnz]
        start == [csr |-> [CSRMatrix(dense.rows, dense.cols) EXCEPT !.row_ptrs[1] = 0],
                  nnz |-> 0]
    IN  ForLoop(LAMBDA si, i: Row(si, i), start, 0, dense.rows, 1).csr

dense_to_csr(dense) ==
    LET Cell(st, i, j) ==
            LET val == At(dense, i, j)
            IN  IF IsNonzero(val)
                THEN [csr |-> [st.csr EXCEPT !.values = Append(@, val),
                                             !.col_indices = Append(@, j)],
                      nnz |-> st.nnz + 1]
                ELSE st
        Row(st, i) ==
            LET done == ForLoop(LAMBDA sj, j: Cell(sj, i, j), st, 0, dense.cols, 1)
            IN  [done EXCEPT !.csr.row_ptrs[i + 2] = done.nnz]
        start == [csr |-> [CSRMatrix(dense.rows, dense.cols) EXCEPT !.row_ptrs[1] = 0],
                  nnz |-> 0]
    IN  ForLoop(LAMBDA si, i: Row(si, i), start, 0, dense.rows, 1).csr

\* (a variant of the second pass that never advances col_offsets)
scatter_NoOffset(dense, st, i, j) ==
    LET val == At(dense, i, j)
        idx == st.csc.col_ptrs[j + 1] + st.col_offsets[j + 1]
    IN  IF IsNonzero(val)
        THEN [st EXCEPT !.csc.values[idx + 1] = val,
                        !.csc.row_indices[idx + 1] = i,
                        !.writes[idx + 1] = @ + 1]
        ELSE st

\* the body of the second pass of dense_to_csc: cell (i, j) is written to the
\* next free slot of column j
scatter(dense, st, i, j) ==
    LET val == At(dense, i, j)
        idx == st.csc.col_ptrs[j + 1] + st.col_offsets[j + 1]
    IN  IF IsNonzero(val)
        THEN [st EXCEPT !.csc.values[idx + 1] = val,
                        !.csc.row_indices[idx + 1] = i,
                        !.col_offsets[j + 1] = @ + 1,
                        !.writes[idx + 1] = @ + 1]
        ELSE st

\* dense_to_csc, with the number of times the second pass writes each slot
dense_to_csc_passes(dense) ==
    LET col_counts ==
            ForLoop(LAMBDA cj, j:
                ForLoop(LAMBDA ci, i:
                    IF IsNonzero(At(dense, i, j)) THEN [ci EXCEPT ![j + 1] = @ + 1]
                                                  ELSE ci,
                    cj, 0, dense.rows, 1),
                [x \in 1..dense.cols |-> 0], 0, dense.cols, 1)
        col_ptrs ==
            ForLoop(LAMBDA ptrs, j: [ptrs EXCEPT ![j + 2] = ptrs[j + 1] + col_counts[j + 1]],
                    [CSCMatrix(dense.rows, dense.cols).col_ptrs EXCEPT ![1] = 0],
                    0, dense.cols, 1)
        size == col_ptrs[dense.cols + 1]
        start == [csc |-> [CSCMatrix(dense.rows, dense.cols) EXCEPT
                              !.col_ptrs = col_ptrs,
                              !.values = [x \in 1..size |-> 0],
                              !.row_indices = [x \in 1..size |-> 0]],
                  col_offsets |-> [x \in 1..dense.cols |-> 0],
                  writes |-> [x \in 1..size |-> 0]]
    IN  ForLoop(LAMBDA si, i:
            ForLoop(LAMBDA sj, j: scatter(dense, sj, i, j), si, 0, dense.cols, 1),
            start, 0, dense.rows, 1)

dense_to_csc(dense) == dense_to_csc_passes(dense).csc

(***************************************************************************)
(* Sparse SpMM kernels (sparse_spmm.cpp)                                   *)
(***************************************************************************)
\* (a variant that leaves C as it was on entry)
ZeroFill_None(c, n) == c

\* for (i = 0; i < M * N; ++i) C.data[i] = 0.0f;
ZeroFill(c, n) == ForLoop(LAMBDA cc, x: [cc EXCEPT !.data[x + 1] = 0], c, 0, n, 1)

\* float buf[8] = {0}; memcpy(buf, &M(i, j), remaining * sizeof(float)); load_ps(buf)
load_partial(Mx, base, remaining) ==
    [l \in 1..SimdWidth |-> IF l <= remaining THEN Mx.data[base + l] ELSE 0]

\* store_ps(buf, v); memcpy(&M(i, j), buf, remaining * sizeof(float))
store_partial(Mx, base, remaining, v) ==
    [Mx EXCEPT !.data = [x \in 1..Len(Mx.data) |->
        IF x > base /\ x <= base + remaining THEN v[x - base] ELSE Mx.data[x]]]

csr_spmm_scalar(a, b, c) ==
    LET M == a.rows
        N == b.cols
        Row(cr, i) ==
            ForLoop(LAMBDA ck, k_idx:
                ForLoop(LAMBDA cj, j:
                    AddTo(cj, i, j, a.values[k_idx + 1] * At(b, a.col_indices[k_idx + 1], j)),
                    ck, 0, N, 1),
                cr, a.row_ptrs[i + 1], a.row_ptrs[i + 2], 1)
    IN  ForLoop(LAMBDA ci, i: Row(ci, i), ZeroFill(c, M * N), 0, M, 1)

csr_spmm_avx2(a, b, c, junk) ==
    LET M == a.rows
        N == b.cols
        simd_width == SimdWidth
        Block(cc, i, j) ==
            LET remaining == Min(simd_width, N - j)
                first == IF remaining = simd_width
                         THEN loadu_ps(cc, Index(cc, i, j), junk)
                         ELSE load_partial(cc, Index(cc, i, j), remaining)
                accum ==
                    ForLoop(LAMBDA acc, k_idx:
                        LET k == a.col_indices[k_idx + 1]
                            a_vec == set1_ps(a.values[k_idx + 1])
                        IN  IF remaining = simd_width
                            THEN fmadd_ps(a_vec, loadu_ps(b, Index(b, k, j), junk), acc)
                            ELSE fmadd_ps(a_vec, load_partial(b, Index(b, k, j), remaining), acc),
                        first, a.row_ptrs[i + 1], a.row_ptrs[i + 2], 1)
            IN  IF remaining = simd_width
                THEN storeu_ps(cc, Index(cc, i, j), accum)
                ELSE store_partial(cc, Index(cc, i, j), remaining, accum)
    IN  ForLoop(LAMBDA ci, i:
            ForLoop(LAMBDA cj, j: Block(cj, i, j), ci, 0, N, simd_width),
            ZeroFill(c, M * N), 0, M, 1)

csr_spmm_omp(a, b, c, num_threads) ==
    LET M == a.rows
        N == b.cols
        Row(cr, i) ==
            ForLoop(LAMBDA ck, k_idx:
                ForLoop(LAMBDA cj, j:
                    AddTo(cj, i, j, a.values[k_idx + 1] * At(b, a.col_indices[k_idx + 1], j)),
                    ck, 0, N, 1),
                cr, a.row_ptrs[i + 1], a.row_ptrs[i + 2], 1)
    IN  ForLoop(LAMBDA ci, i: Row(ci, i), ZeroFill(c, M * N), 0, M, 1)

csr_spmm_avx2_omp(a, b, c, num_threads, junk) ==
    LET M == a.rows
        N == b.cols
        simd_width == SimdWidth
        Block(cc, i, j) ==
            LET remaining == Min(simd_width, N - j)
                first == IF remaining = simd_width
                         THEN loadu_ps(cc, Index(cc, i, j), junk)
                         ELSE load_partial(cc, Index(cc, i, j), remaining)
                accum ==
                    ForLoop(LAMBDA acc, k_idx:
                        LET k == a.col_indices[k_idx + 1]
                            a_vec == set1_ps(a.values[k_idx + 1])
                        IN  IF remaining = simd_width
                            THEN fmadd_ps(a_vec, loadu_ps(b, Index(b, k, j), junk), acc)
                            ELSE fmadd_ps(a_vec, load_partial(b, Index(b, k, j), remaining), acc),
                        first, a.row_ptrs[i + 1], a.row_ptrs[i + 2], 1)
            IN  IF remaining = simd_width
                THEN storeu_ps(cc, Index(cc, i, j), accum)
                ELSE store_partial(cc, Index(cc, i, j), remaining, accum)
    IN  ForLoop(LAMBDA ci, i:
            ForLoop(LAMBDA cj, j: Block(cj, i, j), ci, 0, N, simd_width),
            ZeroFill(c, M * N), 0, M, 1)

csc_spmm_scalar(a, b, c) ==
    LET M == a.rows
        N == b.cols
        Column(cc, j) ==
            ForLoop(LAMBDA cx, k_idx:
                ForLoop(LAMBDA ck, k:
                    AddTo(ck, a.row_indices[k_idx + 1], k, a.values[k_idx + 1] * At(b, j, k)),
                    cx, 0, N, 1),
                cc, a.col_ptrs[j + 1], a.col_ptrs[j + 2], 1)
    IN  ForLoop(LAMBDA cj, j: Column(cj, j), ZeroFill(c, M * N), 0, a.cols, 1)

csc_spmm_avx2(a, b, c, junk) ==
    LET M == a.rows
        N == b.cols
        Chunk(cc, i, j, a_val, k) ==
            LET remaining == Min(SimdWidth, N - k)
            IN  IF remaining = SimdWidth
                THEN storeu_ps(cc, Index(cc, i, k),
                               fmadd_ps(set1_ps(a_val), loadu_ps(b, Index(b, j, k), junk),
                                        loadu_ps(cc, Index(cc, i, k), junk)))
                ELSE ForLoop(LAMBDA ck, kk: AddTo(ck, i, kk, a_val * At(b, j, kk)),
                             cc, k, k + remaining, 1)
        Column(cc, j) ==
            ForLoop(LAMBDA cx, k_idx:
                ForLoop(LAMBDA ck, k:
                    Chunk(ck, a.row_indices[k_idx + 1], j, a.values[k_idx + 1], k),
                    cx, 0, N, SimdWidth),
                cc, a.col_ptrs[j + 1], a.col_ptrs[j + 2], 1)
    IN  ForLoop(LAMBDA cj, j: Column(cj, j), ZeroFill(c, M * N), 0, a.cols, 1)

\* the tasks of the column loop taken in index order; each += is atomic
csc_spmm_omp(a, b, c, num_threads) ==
    LET M == a.rows
        N == b.cols
        Column(cc, j) ==
            ForLoop(LAMBDA cx, k_idx:
                ForLoop(LAMBDA ck, k:
                    AddTo(ck, a.row_indices[k_idx + 1], k, a.values[k_idx + 1] * At(b, j, k)),
                    cx, 0, N, 1),
                cc, a.col_ptrs[j + 1], a.col_ptrs[j + 2], 1)
    IN  ForLoop(LAMBDA cj, j: Column(cj, j), ZeroFill(c, M * N), 0, a.cols, 1)

csr_spmm_tiled(a, b, c, tile_cols, num_threads) ==
    LET M == a.rows
        N == b.cols
        Tile(ct, j0) ==
            LET j_end == Min(j0 + tile_cols, N)
            IN  ForLoop(LAMBDA ci, i:
                    ForLoop(LAMBDA ck, k_idx:
                        ForLoop(LAMBDA cj, j:
                            AddTo(cj, i, j,
                                  a.values[k_idx + 1] * At(b, a.col_indices[k_idx + 1], j)),
                            ck, j0, j_end, 1),
                        ci, a.row_ptrs[i + 1], a.row_ptrs[i + 2], 1),
                    ct, 0, M, 1)
    IN  ForLoop(LAMBDA cj, j0: Tile(cj, j0), ZeroFill(c, M * N), 0, N, tile_cols)

(***************************************************************************)
(* validate_results (matrix.cpp).  The tolerance is the fraction           *)
(* tolerance.num / tolerance.den, so diff / denom > tolerance is compared  *)
(* exactly, as diff * den > num * denom (den and denom are positive).      *)
(***************************************************************************)
validate_results_AbsoluteOnly(r, t, tol) ==
    IF r.rows # t.rows \/ r.cols # t.cols
    THEN FALSE
    ELSE LET Cell(ok, i, j) ==
                 LET diff == Abs(At(r, i, j) - At(t, i, j))
                 IN  ok /\ ~(diff * tol.den > tol.num)
         IN  ForLoop(LAMBDA oi, i: ForLoop(LAMBDA oj, j: Cell(oj, i, j), oi, 0, r.cols, 1),
                     TRUE, 0, r.rows, 1)

validate_results(r, t, tol) ==
    IF r.rows # t.rows \/ r.cols # t.cols
    THEN FALSE
    ELSE LET \* ok is FALSE once a cell has made the function return false
             Cell(ok, i, j) ==
                 LET ref_val == At(r, i, j)
                     test_val == At(t, i, j)
                     diff == Abs(ref_val - test_val)
                     denom == Max(Abs(ref_val), 1)
                 IN  ok /\ ~(diff * tol.den > tol.num * denom)
         IN  ForLoop(LAMBDA oi, i: ForLoop(LAMBDA oj, j: Cell(oj, i, j), oi, 0, r.cols, 1),
                     TRUE, 0, r.rows, 1)

(***************************************************************************)
(* Operands.  Nonzero cells hold distinct values of both signs.  A left     *)
(* operand of a sparse kernel has its nonzero cells where a row set meets  *)
(* a column set, or on a checkerboard, so that empty rows, empty columns,  *)
(* the zero matrix and the full matrix all occur.  The output matrix is    *)
(* zero, as the constructor and the engine leave it, or holds old values.  *)
(***************************************************************************)
CellValue(x) == IF x % 2 = 1 THEN x ELSE -x

Masked(r, c, keep(_, _)) ==
    [rows |-> r, cols |-> c, layout |-> "ROW_MAJOR",
     data |-> [x \in 1..(r * c) |->
                 IF keep((x - 1) \div c, (x - 1) % c) THEN CellValue(x) ELSE 0]]

LeftOperands(r, c) ==
    {Masked(r, c, LAMBDA i, k: i \in R /\ k \in S) :
        R \in SUBSET (0..(r - 1)), S \in SUBSET (0..(c - 1))}
    \cup {Masked(r, c, LAMBDA i, k: (i + k) % 2 = p) : p \in 0..1}

DenseLeftOperands(r, c) ==
    {Masked(r, c, LAMBDA i, k: TRUE)}
    \cup {Masked(r, c, LAMBDA i, k: (i + k) % 2 = p) : p \in 0..1}

RightSeeds == {<<1, 1>>, <<1, -1>>, <<0, 2>>, <<3, 0>>}

RightOperands(r, c) ==
    {[rows |-> r, cols |-> c, layout |-> "ROW_MAJOR",
      data |-> [x \in 1..(r * c) |-> s[(x % 2) + 1] * x]] : s \in RightSeeds}

NSizes == (1..MaxTail) \cup {SimdWidth + t : t \in 0..MaxTail}

TileSizes == (1..MaxTile) \cup {DefaultTile}

JunkValues == {0, 7}

DefaultThreads == 4

OutputFills == {0, 5}

Filled(r, c, v) == Assign(DenseMatrix(r, c), r * c, v)

Null == [rows |-> 0, cols |-> 0, layout |-> "ROW_MAJOR", data |-> <<>>]

NoCSR == CSRMatrix(0, 0)

NoCSC == CSCMatrix(0, 0)

(***************************************************************************)
(* OpenMP thread count                                                     *)
(***************************************************************************)
\* the kernels that call omp_set_num_threads(num_threads)
ThreadSettingKernels ==
    {"gemm_optimized", "gemm_omp", "gemm_avx2_omp", "csr_spmm_omp", "csr_spmm_avx2_omp",
     "csc_spmm_omp", "csr_spmm_tiled"}

\* the thread count in force after kernel has run with argument num_threads
omp_set_num_threads(kernel, num_threads, current) ==
    IF kernel \in ThreadSettingKernels THEN num_threads ELSE current

(***************************************************************************)
(* double: the value (num / den) * 10^(9 * e9).  den = 0 is the result of   *)
(* a division by zero: an infinity when num # 0, a NaN when num = 0.        *)
(***************************************************************************)
Double(n) == [num |-> n, den |-> 1, e9 |-> 0]

Giga == [num |-> 1, den |-> 1, e9 |-> 1]

FDiv(x, y) == [num |-> x.num * y.den, den |-> x.den * y.num, e9 |-> x.e9 - y.e9]

FAdd(x, y) ==
    IF x.den = y.den /\ x.e9 = y.e9
    THEN [x EXCEPT !.num = @ + y.num]
    ELSE [num |-> x.num * y.den + y.num * x.den, den |-> x.den * y.den, e9 |-> x.e9]

IsZero(x) == x.num = 0 /\ x.den # 0

IsFinite(x) == x.den # 0

(***************************************************************************)
(* ExperimentResult, ExperimentConfig (benchmark.h) and the timer (utils)  *)
(***************************************************************************)
ExperimentResult ==
    [time_seconds |-> Double(0), gflops |-> Double(0), cpnz |-> Double(0), flops |-> 0,
     bytes_accessed |-> 0, arithmetic_intensity |-> Double(0), kernel_type |-> "",
     implementation |-> "", size |-> 0, sparsity |-> 0, threads |-> 1]

\* sparsity is a number of thousandths
ExperimentConfig(m, k, n, sparsity, num_threads, kernel_type, implementation) ==
    [m |-> m, k |-> k, n |-> n, sparsity |-> sparsity, num_threads |-> num_threads,
     kernel_type |-> kernel_type, implementation |-> implementation]

NoConfig == ExperimentConfig(0, 0, 0, 0, 0, "", "")

\* start_time_ and end_time_ count ticks of one second from the last start()
PerformanceCounter == [start_time |-> 0, end_time |-> 0]

get_elapsed_seconds(t) == Double(t.end_time - t.start_time)

sizeof_float == 4

sizeof_int == 4

sizeof_size_t == 8

vars == <<A, B, C, op, csr, csc, writes, ref, test, tolerance, verdict, omp_threads,
          config, fn, pc, trial, total_time, timer, result, trial_log, generated,
          mpc, exp, todo, results, files, measured_memory_bw, failed,
          C_entry, outputs, accesses, loops, queue, work, completed, reg, writers,
          commands, stats_array, avg_stats, printed, ppc>>

validateVars == <<ref, test, tolerance, verdict>>

NoValidation ==
    ref = Null /\ test = Null /\ tolerance = [num |-> 0, den |-> 1] /\ verdict = "none"

convVars == <<csr, csc, writes>>

NoConversion == csr = NoCSR /\ csc = NoCSC /\ writes = <<>>

engineVars == <<config, fn, pc, trial, total_time, timer, result, trial_log, generated>>

NoEngine ==
    /\ config = NoConfig /\ fn = "none" /\ pc = "idle" /\ trial = 0
    /\ total_time = Double(0) /\ timer = PerformanceCounter
    /\ result = ExperimentResult /\ trial_log = <<>> /\ generated = 0

mainVars == <<mpc, exp, todo, results, files, measured_memory_bw, failed>>

NoMain ==
    /\ mpc = "none" /\ exp = 0 /\ todo = <<>> /\ results = <<>> /\ files = <<>>
    /\ measured_memory_bw = 0 /\ failed = <<>>

regionVars == <<queue, work, completed, reg, writers>>

taskVars == <<C_entry, outputs, accesses, loops, regionVars>>

profilerVars == <<commands, stats_array, avg_stats, printed, ppc>>

\* no parallel region is open and no call is recorded
NoTasks ==
    /\ C_entry = Null /\ outputs = <<>> /\ accesses = <<>> /\ loops = <<>>
    /\ queue = <<>> /\ work = <<>> /\ completed = <<>> /\ reg = <<>> /\ writers = <<>>

\* the profiler has not started
NoProfiler ==
    /\ commands = <<>> /\ stats_array = <<>> /\ avg_stats = <<>> /\ printed = <<>>
    /\ ppc = "idle"

\* no benchmark is running
NoBenchmark == omp_threads = 0 /\ NoEngine /\ NoMain

(***************************************************************************)
(* Dense kernels: one kernel is called on conformant operands.              *)
(***************************************************************************)
InitDense ==
    /\ \E m \in 1..MaxM, k \in 1..MaxK, n \in NSizes :
          /\ A \in DenseLeftOperands(m, k)
          /\ B \in RightOperands(k, n)
          /\ C \in {Filled(m, n, v) : v \in OutputFills}
    /\ op = "none"
    /\ NoConversion
    /\ NoValidation
    /\ NoBenchmark
    /\ NoTasks
    /\ NoProfiler

Call_gemm_scalar ==
    /\ op = "none"
    /\ C' = gemm_scalar(A, B, C, FALSE, FALSE)
    /\ op' = "gemm_scalar"
    /\ omp_threads' = omp_set_num_threads("gemm_scalar", DefaultThreads, omp_threads)
    /\ UNCHANGED <<A, B, convVars, validateVars, engineVars, mainVars, taskVars,
                   profilerVars>>

Call_gemm_avx2 ==
    /\ op = "none"
    /\ \E junk \in JunkValues : C' = gemm_avx2(A, B, C, junk)
    /\ op' = "gemm_avx2"
    /\ omp_threads' = omp_set_num_threads("gemm_avx2", DefaultThreads, omp_threads)
    /\ UNCHANGED <<A, B, convVars, validateVars, engineVars, mainVars, taskVars,
                   profilerVars>>

Call_gemm_tiled ==
    /\ op = "none"
    /\ \E tile_size \in TileSizes : C' = gemm_tiled(A, B, C, tile_size)
    /\ op' = "gemm_tiled"
    /\ omp_threads' = omp_set_num_threads("gemm_tiled", DefaultThreads, omp_threads)
    /\ UNCHANGED <<A, B, convVars, validateVars, engineVars, mainVars, taskVars,
                   profilerVars>>

Call_gemm_optimized ==
    /\ op = "none"
    /\ \E tile_size \in TileSizes, junk \in JunkValues :
          C' = gemm_optimized(A, B, C, DefaultThreads, tile_size, junk)
    /\ op' = "gemm_optimized"
    /\ omp_threads' = omp_set_num_threads("gemm_optimized", DefaultThreads, omp_threads)
    /\ UNCHANGED <<A, B, convVars, validateVars, engineVars, mainVars, taskVars,
                   profilerVars>>

Call_gemm_omp ==
    /\ op = "none"
    /\ C' = gemm_omp(A, B, C, DefaultThreads)
    /\ op' = "gemm_omp"
    /\ omp_threads' = omp_set_num_threads("gemm_omp", DefaultThreads, omp_threads)
    /\ UNCHANGED <<A, B, convVars, validateVars, engineVars, mainVars, taskVars,
                   profilerVars>>

Call_gemm_avx2_omp ==
    /\ op = "none"
    /\ \E junk \in JunkValues : C' = gemm_avx2_omp(A, B, C, DefaultThreads, junk)
    /\ op' = "gemm_avx2_omp"
    /\ omp_threads' = omp_set_num_threads("gemm_avx2_omp", DefaultThreads, omp_threads)
    /\ UNCHANGED <<A, B, convVars, validateVars, engineVars, mainVars, taskVars,
                   profilerVars>>

NextDense ==
    \/ Call_gemm_scalar
    \/ Call_gemm_avx2
    \/ Call_gemm_tiled
    \/ Call_gemm_optimized
    \/ Call_gemm_omp
    \/ Call_gemm_avx2_omp

SpecDense == InitDense /\ [][NextDense]_vars

\* the mathematical product: cell (i, j) of a * b
Product(a, b, i, j) ==
    LET RECURSIVE dot(_)
        dot(k) == IF k = 0 THEN 0 ELSE At(a, i, k - 1) * At(b, k - 1, j) + dot(k - 1)
    IN  dot(a.cols)

IsProduct(a, b, c) ==
    /\ Len(c.data) = c.rows * c.cols
    /\ \A i \in 0..(c.rows - 1), j \in 0..(c.cols - 1) : At(c, i, j) = Product(a, b, i, j)

\* C1: after any dense GEMM variant, every cell of C holds the product
\* sum over k of A[i,k]*B[k,j], the result of the scalar reference, for every
\* size, also when n is no multiple of 8 or of the tile size.
C1_DenseVariantsMatchScalar ==
    op \in {"gemm_scalar", "gemm_avx2", "gemm_tiled", "gemm_optimized",
            "gemm_omp", "gemm_avx2_omp"}
        => IsProduct(A, B, C) /\ C = gemm_scalar(A, B, C, FALSE, FALSE)

\* C1 witness: a vectorized kernel has run on a matrix with a full vector and a tail.
C1_Witness ==
    /\ op = "gemm_optimized"
    /\ C.cols = SimdWidth + 1
    /\ A.cols > 1
    /\ \E x \in 1..Len(C.data) : C.data[x] # 0


(***************************************************************************)
(* Sparse kernels: the left operand is encoded and one kernel of the       *)
(* encoding's family is called.                                            *)
(***************************************************************************)
InitSparse ==
    /\ \E m \in 1..MaxM, k \in 1..MaxK, n \in NSizes :
          /\ A \in LeftOperands(m, k)
          /\ B \in RightOperands(k, n)
          /\ C \in {Filled(m, n, v) : v \in OutputFills}
    /\ op = "none"
    /\ NoConversion
    /\ NoValidation
    /\ NoBenchmark
    /\ NoTasks
    /\ NoProfiler

Call_csr_spmm_scalar ==
    /\ op = "none"
    /\ C' = csr_spmm_scalar(dense_to_csr(A), B, C)
    /\ op' = "csr_spmm_scalar"
    /\ omp_threads' = omp_set_num_threads("csr_spmm_scalar", DefaultThreads, omp_threads)
    /\ UNCHANGED <<A, B, convVars, validateVars, engineVars, mainVars, taskVars,
                   profilerVars>>

Call_csr_spmm_avx2 ==
    /\ op = "none"
    /\ \E junk \in JunkValues : C' = csr_spmm_avx2(dense_to_csr(A), B, C, junk)
    /\ op' = "csr_spmm_avx2"
    /\ omp_threads' = omp_set_num_threads("csr_spmm_avx2", DefaultThreads, omp_threads)
    /\ UNCHANGED <<A, B, convVars, validateVars, engineVars, mainVars, taskVars,
                   profilerVars>>

Call_csr_spmm_omp ==
    /\ op = "none"
    /\ C' = csr_spmm_omp(dense_to_csr(A), B, C, DefaultThreads)
    /\ op' = "csr_spmm_omp"
    /\ omp_threads' = omp_set_num_threads("csr_spmm_omp", DefaultThreads, omp_threads)
    /\ UNCHANGED <<A, B, convVars, validateVars, engineVars, mainVars, taskVars,
                   profilerVars>>

Call_csr_spmm_avx2_omp ==
    /\ op = "none"
    /\ \E junk \in JunkValues :
          C' = csr_spmm_avx2_omp(dense_to_csr(A), B, C, DefaultThreads, junk)
    /\ op' = "csr_spmm_avx2_omp"
    /\ omp_threads' = omp_set_num_threads("csr_spmm_avx2_omp", DefaultThreads, omp_threads)
    /\ UNCHANGED <<A, B, convVars, validateVars, engineVars, mainVars, taskVars,
                   profilerVars>>

Call_csr_spmm_tiled ==
    /\ op = "none"
    /\ \E tile_cols \in TileSizes :
          C' = csr_spmm_tiled(dense_to_csr(A), B, C, tile_cols, DefaultThreads)
    /\ op' = "csr_spmm_tiled"
    /\ omp_threads' = omp_set_num_threads("csr_spmm_tiled", DefaultThreads, omp_threads)
    /\ UNCHANGED <<A, B, convVars, validateVars, engineVars, mainVars, taskVars,
                   profilerVars>>

Call_csc_spmm_scalar ==
    /\ op = "none"
    /\ C' = csc_spmm_scalar(dense_to_csc(A), B, C)
    /\ op' = "csc_spmm_scalar"
    /\ omp_threads' = omp_set_num_threads("csc_spmm_scalar", DefaultThreads, omp_threads)
    /\ UNCHANGED <<A, B, convVars, validateVars, engineVars, mainVars, taskVars,
                   profilerVars>>

Call_csc_spmm_avx2 ==
    /\ op = "none"
    /\ \E junk \in JunkValues : C' = csc_spmm_avx2(dense_to_csc(A), B, C, junk)
    /\ op' = "csc_spmm_avx2"
    /\ omp_threads' = omp_set_num_threads("csc_spmm_avx2", DefaultThreads, omp_threads)
    /\ UNCHANGED <<A, B, convVars, validateVars, engineVars, mainVars, taskVars,
                   profilerVars>>

Call_csc_spmm_omp ==
    /\ op = "none"
    /\ C' = csc_spmm_omp(dense_to_csc(A), B, C, DefaultThreads)
    /\ op' = "csc_spmm_omp"
    /\ omp_threads' = omp_set_num_threads("csc_spmm_omp", DefaultThreads, omp_threads)
    /\ UNCHANGED <<A, B, convVars, validateVars, engineVars, mainVars, taskVars,
                   profilerVars>>

NextSparse ==
    \/ Call_csr_spmm_scalar
    \/ Call_csr_spmm_avx2
    \/ Call_csr_spmm_omp
    \/ Call_csr_spmm_avx2_omp
    \/ Call_csr_spmm_tiled
    \/ Call_csc_spmm_scalar
    \/ Call_csc_spmm_avx2
    \/ Call_csc_spmm_omp

SpecSparse == InitSparse /\ [][NextSparse]_vars

SparseKernels ==
    {"csr_spmm_scalar", "csr_spmm_avx2", "csr_spmm_omp", "csr_spmm_avx2_omp",
     "csr_spmm_tiled", "csc_spmm_scalar", "csc_spmm_avx2", "csc_spmm_omp"}

\* C2: after any sparse SpMM variant on the CSR or CSC encoding of A, C holds
\* the product A * B that dense GEMM computes from the dense A, for every n
\* and also when rows or columns of A have no nonzero.
C2_SparseVariantsMatchDense ==
    op \in SparseKernels
        => IsProduct(A, B, C) /\ C = gemm_scalar(A, B, C, FALSE, FALSE)

\* C2 witness: a vectorized CSC kernel has run, with a full vector and a tail, on an
\* operand that has an empty row, an empty column and a nonzero cell.
C2_Witness ==
    /\ op = "csc_spmm_avx2"
    /\ C.cols = SimdWidth + 1
    /\ \E i \in 0..(A.rows - 1) : \A k \in 0..(A.cols - 1) : At(A, i, k) = 0
    /\ \E k \in 0..(A.cols - 1) : \A i \in 0..(A.rows - 1) : At(A, i, k) = 0
    /\ \E x \in 1..Len(C.data) : C.data[x] # 0


(***************************************************************************)
(* Conversions: a dense matrix is encoded as CSR and as CSC.  The inputs   *)
(* are all matrices of up to MaxConv x MaxConv cells, each cell zero or    *)
(* not, and the 4 x 4 matrices with exactly 3 nonzero cells.               *)
(***************************************************************************)
ConvInputs ==
    UNION {{Masked(r, c, LAMBDA i, j: (i * c + j) \in keep) : keep \in SUBSET (0..(r * c - 1))} :
              r \in 1..MaxConv, c \in 1..MaxConv}
    \cup {Masked(4, 4, LAMBDA i, j: (i * 4 + j) \in {t[1], t[2], t[3]}) :
              t \in {u \in (0..15) \X (0..15) \X (0..15) : u[1] < u[2] /\ u[2] < u[3]}}

InitConv ==
    /\ A \in ConvInputs
    /\ B = Null
    /\ C = Null
    /\ op = "none"
    /\ NoConversion
    /\ NoValidation
    /\ NoBenchmark
    /\ NoTasks
    /\ NoProfiler

Call_dense_to_csr ==
    /\ csr = NoCSR
    /\ csr' = dense_to_csr(A)
    /\ op' = "dense_to_csr"
    /\ UNCHANGED <<A, B, C, csc, writes, validateVars, omp_threads, engineVars,
                   mainVars, taskVars,
                   profilerVars>>

Call_dense_to_csc ==
    /\ csc = NoCSC
    /\ LET run == dense_to_csc_passes(A)
       IN  /\ csc' = dense_to_csc(A)
           /\ writes' = run.writes
    /\ op' = "dense_to_csc"
    /\ UNCHANGED <<A, B, C, csr, validateVars, omp_threads, engineVars, mainVars, taskVars,
                   profilerVars>>

NextConv ==
    \/ Call_dense_to_csr
    \/ Call_dense_to_csc

SpecConv == InitConv /\ [][NextConv]_vars

\* the cells of a dense matrix whose value exceeds the threshold 1e-10 in magnitude
\* (an integer does so exactly when it is not 0)
NonzeroCells(dense) ==
    {t \in {<<i, j, At(dense, i, j)>> : i \in 0..(dense.rows - 1), j \in 0..(dense.cols - 1)} :
        t[3] # 0}

\* the slots of the compressed range of row / column i
Slots(ptrs, i) == (ptrs[i + 1] + 1)..ptrs[i + 2]

TriplesOfCSR(m) ==
    UNION {{<<i, m.col_indices[x], m.values[x]>> : x \in Slots(m.row_ptrs, i)} :
              i \in 0..(m.rows - 1)}

TriplesOfCSC(m) ==
    UNION {{<<m.row_indices[x], j, m.values[x]>> : x \in Slots(m.col_ptrs, j)} :
              j \in 0..(m.cols - 1)}

\* C3: dense_to_csr returns row_ptrs of length rows+1 that starts at 0, never
\* decreases and ends at nnz = |values| = |col_indices|, and the range of row i
\* lists exactly the cells of row i above the threshold, each once.
C3_CsrInvariants ==
    csr # NoCSR =>
        LET nnz == Cardinality(NonzeroCells(A))
        IN  /\ csr.rows = A.rows /\ csr.cols = A.cols
            /\ Len(csr.row_ptrs) = A.rows + 1
            /\ csr.row_ptrs[1] = 0
            /\ \A i \in 1..A.rows : csr.row_ptrs[i] <= csr.row_ptrs[i + 1]
            /\ csr.row_ptrs[A.rows + 1] = nnz
            /\ Len(csr.values) = nnz
            /\ Len(csr.col_indices) = nnz
            /\ \A i \in 0..(A.rows - 1) :
                  /\ {<<i, csr.col_indices[x], csr.values[x]>> : x \in Slots(csr.row_ptrs, i)}
                        = {t \in NonzeroCells(A) : t[1] = i}
                  /\ Cardinality(Slots(csr.row_ptrs, i))
                        = Cardinality({t \in NonzeroCells(A) : t[1] = i})

\* C3 witness: the CSR encoding of a 4 x 4 matrix with 3 nonzero cells, two of them
\* in one row: row_ptrs has length 5 and row_ptrs[4] is 3.
C3_Witness ==
    /\ csr # NoCSR
    /\ A.rows = 4 /\ A.cols = 4
    /\ Len(csr.row_ptrs) = 5 /\ csr.row_ptrs[5] = 3 /\ Len(csr.values) = 3
    /\ \E i \in 1..4 : csr.row_ptrs[i + 1] = csr.row_ptrs[i] + 2

\* C4: dense_to_csc returns col_ptrs of length cols+1 that starts at 0, never
\* decreases and ends at nnz = |values| = |row_indices|; the range of column j
\* lists exactly the cells of column j above the threshold, and the scatter
\* pass writes every slot exactly once.
C4_CscInvariants ==
    csc # NoCSC =>
        LET nnz == Cardinality(NonzeroCells(A))
        IN  /\ csc.rows = A.rows /\ csc.cols = A.cols
            /\ Len(csc.col_ptrs) = A.cols + 1
            /\ csc.col_ptrs[1] = 0
            /\ \A j \in 1..A.cols : csc.col_ptrs[j] <= csc.col_ptrs[j + 1]
            /\ csc.col_ptrs[A.cols + 1] = nnz
            /\ Len(csc.values) = nnz
            /\ Len(csc.row_indices) = nnz
            /\ \A j \in 0..(A.cols - 1) :
                  /\ {<<csc.row_indices[x], j, csc.values[x]>> : x \in Slots(csc.col_ptrs, j)}
                        = {t \in NonzeroCells(A) : t[2] = j}
                  /\ Cardinality(Slots(csc.col_ptrs, j))
                        = Cardinality({t \in NonzeroCells(A) : t[2] = j})
            /\ Len(writes) = nnz
            /\ \A x \in 1..nnz : writes[x] = 1

\* C4 witness: the CSC encoding of a matrix with an empty column before a column
\* that holds two nonzero cells.
C4_Witness ==
    /\ csc # NoCSC
    /\ \E j \in 1..(A.cols - 1) :
          /\ csc.col_ptrs[j + 1] = csc.col_ptrs[j]
          /\ csc.col_ptrs[j + 2] = csc.col_ptrs[j + 1] + 2
    /\ \A x \in 1..Len(writes) : writes[x] = 1

\* C5: the (row, col, value) triples recovered from dense_to_csr(A) are those
\* recovered from dense_to_csc(A), and both are the cells of A above the threshold.
C5_SameTriples ==
    (csr # NoCSR /\ csc # NoCSC) =>
        /\ TriplesOfCSR(csr) = TriplesOfCSC(csc)
        /\ TriplesOfCSR(csr) = NonzeroCells(A)

\* C5 witness: both encodings of a matrix with a negative and a positive cell in
\* different rows and columns.
C5_Witness ==
    /\ csr # NoCSR /\ csc # NoCSC
    /\ \E s, t \in NonzeroCells(A) : s[1] # t[1] /\ s[2] # t[2] /\ s[3] < 0 /\ t[3] > 0


(***************************************************************************)
(* The validator applied to two matrices of finite values, of equal or     *)
(* different shapes.                                                       *)
(***************************************************************************)
CellValues == {-4, -2, 0, 1}

Tolerances ==
    {[num |-> 0, den |-> 1], [num |-> 1, den |-> 100000], [num |-> 1, den |-> 2],
     [num |-> 1, den |-> 1]}

Matrices(r, c) ==
    {[rows |-> r, cols |-> c, layout |-> "ROW_MAJOR", data |-> d] :
        d \in [1..(r * c) -> CellValues]}

Shapes == {s \in (1..MaxCells) \X (1..MaxCells) : s[1] * s[2] <= MaxCells}

InitValidate ==
    /\ \E s, t \in Shapes :
          /\ ref \in Matrices(s[1], s[2])
          /\ test \in Matrices(t[1], t[2])
    /\ tolerance \in Tolerances
    /\ verdict = "none"
    /\ A = Null /\ B = Null /\ C = Null /\ op = "none"
    /\ NoConversion
    /\ NoBenchmark
    /\ NoTasks
    /\ NoProfiler

Call_validate_results ==
    /\ verdict = "none"
    /\ verdict' = IF validate_results(ref, test, tolerance) THEN "true" ELSE "false"
    /\ UNCHANGED <<A, B, C, op, convVars, ref, test, tolerance, omp_threads,
                   engineVars, mainVars, taskVars,
                   profilerVars>>

NextValidate == Call_validate_results

SpecValidate == InitValidate /\ [][NextValidate]_vars

\* cell x of the reference and of the test matrix are within the tolerance:
\* absolutely when |ref| <= 1, relatively to |ref| when |ref| > 1
WithinTolerance(x) ==
    LET rv == ref.data[x]
        diff == Abs(rv - test.data[x])
    IN  IF Abs(rv) <= 1
        THEN diff * tolerance.den <= tolerance.num
        ELSE diff * tolerance.den <= tolerance.num * Abs(rv)

\* C6: validate_results returns false when the shapes differ; otherwise it
\* returns true exactly when every cell has |ref-test| / max(|ref|, 1) <= tol:
\* an absolute tolerance for |ref| <= 1 (also ref = 0), a relative one beyond.
C6_ValidateDualTolerance ==
    verdict # "none" =>
        IF ref.rows # test.rows \/ ref.cols # test.cols
        THEN verdict = "false"
        ELSE (verdict = "true") <=> \A x \in 1..Len(ref.data) : WithinTolerance(x)

\* C6 witness: a matrix accepted with a cell of reference 0 that is off by 1, at
\* the absolute tolerance 1, and a cell of reference -4 that is off by 4, which
\* only the relative tolerance accepts.
C6_Witness ==
    /\ verdict = "true"
    /\ Len(ref.data) = 2
    /\ tolerance = [num |-> 1, den |-> 1]
    /\ ref.data[1] = 0 /\ test.data[1] = 1
    /\ ref.data[2] = -4 /\ test.data[2] = 0



(***************************************************************************)
(* The benchmark engine (benchmark.cpp): run_dense_experiment and          *)
(* run_sparse_experiment, one statement group per step.                    *)
(***************************************************************************)
MaxSize == 1        \* the engine is called with m = k = n in 1..MaxSize
MaxErrors == 1      \* at most MaxErrors kernel invocations raise an error in a run
MaxSweep == 2       \* of a sweep, the first MaxSweep - 1 configurations and the last are run

warmup == 3

iterations == 3

\* When the engine is called on its own, the timer, the cycle counter and the
\* random generator take each of the outcomes below; when main runs the whole
\* battery, one outcome of each is followed (no generated cell is zero).  When
\* the engine is called repeatedly for its metrics, the warmup trials, whose
\* timings are dropped, all measure 1, and the zero cells of a generated
\* matrix are its first cells: every count of nonzero cells occurs.
\* the timings a trial can measure, in ticks
ElapsedValues ==
    IF mpc = "direct" \/ (mpc = "metrics" /\ trial >= warmup) THEN {0, 1} ELSE {1}

\* the values __rdtsc() can return
TscValues == IF mpc \in {"direct", "metrics"} THEN {900, 901} ELSE {900}

\* every cell is 0.0 or a value drawn from [0, 1), modelled by 1; with
\* sparsity 0 the Bernoulli trial of a cell always succeeds
generate_random_dense(rows, cols, sparsity) ==
    IF mpc = "metrics" /\ sparsity # 0
    THEN {[DenseMatrix(rows, cols) EXCEPT !.data = [x \in 1..(rows * cols) |->
                                                       IF x <= z THEN 0 ELSE 1]] :
             z \in 0..(rows * cols)}
    ELSE {[DenseMatrix(rows, cols) EXCEPT !.data = d] :
             d \in [1..(rows * cols) -> IF sparsity = 0 \/ mpc # "direct" THEN {1} ELSE {0, 1}]}

\* the if / else-if chain of run_dense_experiment
dense_dispatch(cfg) ==
    IF cfg.implementation = "scalar" THEN "gemm_scalar"
    ELSE IF cfg.implementation = "simd" THEN "gemm_avx2"
    ELSE IF cfg.implementation = "omp" THEN "gemm_omp"
    ELSE IF cfg.implementation = "simd_omp" THEN "gemm_avx2_omp"
    ELSE "gemm_optimized"

\* the if / else-if chain of run_sparse_experiment ("none": no kernel is called)
sparse_dispatch(cfg) ==
    IF cfg.kernel_type = "csr"
    THEN IF cfg.implementation = "scalar" THEN "csr_spmm_scalar"
         ELSE IF cfg.implementation = "simd" THEN "csr_spmm_avx2"
         ELSE IF cfg.implementation = "omp" THEN "csr_spmm_omp"
         ELSE "csr_spmm_avx2_omp"
    ELSE "none"

dispatch(f, cfg) ==
    IF f = "run_dense_experiment" THEN dense_dispatch(cfg) ELSE sparse_dispatch(cfg)

\* the call the engine makes for the kernel selected
Invoke(kernel, a, a_csr, b, c, num_threads, junk) ==
    CASE kernel = "gemm_scalar" -> gemm_scalar(a, b, c, FALSE, FALSE)
      [] kernel = "gemm_avx2" -> gemm_avx2(a, b, c, junk)
      [] kernel = "gemm_omp" -> gemm_omp(a, b, c, num_threads)
      [] kernel = "gemm_avx2_omp" -> gemm_avx2_omp(a, b, c, num_threads, junk)
      [] kernel = "gemm_optimized" -> gemm_optimized(a, b, c, num_threads, DefaultTile, junk)
      [] kernel = "csr_spmm_scalar" -> csr_spmm_scalar(a_csr, b, c)
      [] kernel = "csr_spmm_avx2" -> csr_spmm_avx2(a_csr, b, c, junk)
      [] kernel = "csr_spmm_omp" -> csr_spmm_omp(a_csr, b, c, num_threads)
      [] kernel = "csr_spmm_avx2_omp" -> csr_spmm_avx2_omp(a_csr, b, c, num_threads, junk)

\* (a variant that keeps the timing of every trial)
IsTimed_Always(t) == TRUE

\* if (i >= warmup)
IsTimed(t) == t >= warmup

\* the first statements of run_dense_experiment, up to the loop
Enter_run_dense_experiment(cfg) ==
    /\ pc = "idle"
    /\ config' = cfg
    /\ fn' = "run_dense_experiment"
    /\ result' = [ExperimentResult EXCEPT !.kernel_type = cfg.kernel_type,
                                          !.implementation = cfg.implementation,
                                          !.size = cfg.m,
                                          !.sparsity = cfg.sparsity,
                                          !.threads = cfg.num_threads]
    /\ A' \in generate_random_dense(cfg.m, cfg.k, cfg.sparsity)
    /\ B' \in generate_random_dense(cfg.k, cfg.n, 0)
    /\ C' = DenseMatrix(cfg.m, cfg.n)
    /\ csr' = NoCSR
    /\ generated' = 1
    /\ timer' = PerformanceCounter
    /\ total_time' = Double(0)
    /\ trial' = 0
    /\ trial_log' = <<>>
    /\ pc' = "loop"
    /\ UNCHANGED <<op, csc, writes, validateVars, omp_threads, profilerVars>>

\* the first statements of run_sparse_experiment, up to the loop
Enter_run_sparse_experiment(cfg) ==
    /\ pc = "idle"
    /\ config' = cfg
    /\ fn' = "run_sparse_experiment"
    /\ result' = [ExperimentResult EXCEPT !.kernel_type = cfg.kernel_type,
                                          !.implementation = cfg.implementation,
                                          !.size = cfg.m,
                                          !.sparsity = cfg.sparsity,
                                          !.threads = cfg.num_threads]
    /\ A' \in generate_random_dense(cfg.m, cfg.k, cfg.sparsity)
    /\ csr' = dense_to_csr(A')
    /\ B' \in generate_random_dense(cfg.k, cfg.n, 0)
    /\ C' = DenseMatrix(cfg.m, cfg.n)
    /\ generated' = 1
    /\ timer' = PerformanceCounter
    /\ total_time' = Double(0)
    /\ trial' = 0
    /\ trial_log' = <<>>
    /\ pc' = "loop"
    /\ UNCHANGED <<op, csc, writes, validateVars, omp_threads, profilerVars>>

\* for (int i = 0; i < warmup + iterations; i++) { std::fill(C.data.begin(), ...
ResetC ==
    /\ pc = "loop"
    /\ trial < warmup + iterations
    /\ C' = [C EXCEPT !.data = [x \in 1..Len(C.data) |-> 0]]
    /\ pc' = "start"
    /\ UNCHANGED <<A, B, op, convVars, validateVars, omp_threads, config, fn, trial,
                   total_time, timer, result, trial_log, generated, mainVars, taskVars,
                   profilerVars>>

\* timer.start();
TimerStart ==
    /\ pc = "start"
    /\ timer' = [timer EXCEPT !.start_time = 0]
    /\ trial_log' = Append(trial_log,
                           [zeroed |-> \A x \in 1..Len(C.data) : C.data[x] = 0,
                            kernels |-> <<>>, stopped |-> FALSE, elapsed |-> 0])
    /\ pc' = "try"
    /\ UNCHANGED <<A, B, C, op, convVars, validateVars, omp_threads, config, fn, trial,
                   total_time, result, generated, mainVars, taskVars, profilerVars>>

\* try { ... }: the kernel selected, if any, runs to its end
InvokeKernel ==
    /\ pc = "try"
    /\ LET kernel == dispatch(fn, config)
       IN  IF kernel = "none"
           THEN UNCHANGED <<C, op, omp_threads, trial_log, profilerVars>>
           ELSE /\ \E junk \in JunkValues :
                      C' = Invoke(kernel, A, csr, B, C, config.num_threads, junk)
                /\ op' = kernel
                /\ omp_threads' = omp_set_num_threads(kernel, config.num_threads, omp_threads)
                /\ trial_log' = [trial_log EXCEPT ![Len(trial_log)].kernels = Append(@, kernel)]
    /\ pc' = "stop"
    /\ UNCHANGED <<A, B, convVars, validateVars, config, fn, trial, total_time, timer,
                   result, generated, mainVars, taskVars, profilerVars>>

\* catch (const std::exception& e): the kernel selected raises, the function
\* returns the result with time_seconds = 0.0 and gflops = 0.0
KernelThrows ==
    /\ pc = "try"
    /\ Len(failed) < MaxErrors
    /\ failed' = Append(failed, [exp |-> exp, kernel |-> dispatch(fn, config)])
    /\ LET kernel == dispatch(fn, config)
       IN  /\ kernel # "none"
           /\ op' = kernel
           /\ omp_threads' = omp_set_num_threads(kernel, config.num_threads, omp_threads)
           /\ trial_log' = [trial_log EXCEPT ![Len(trial_log)].kernels = Append(@, kernel)]
    /\ result' = [result EXCEPT !.time_seconds = Double(0), !.gflops = Double(0)]
    /\ pc' = "return"
    /\ UNCHANGED <<taskVars, A, B, C, convVars, validateVars, config, fn, trial,
                   total_time, timer,
                   generated, mpc, exp, todo, results, files, measured_memory_bw,
                   profilerVars>>

\* timer.stop(); if (i >= warmup) total_time += timer.get_elapsed_seconds(); i++
TimerStop ==
    /\ pc = "stop"
    /\ \E e \in ElapsedValues :
          /\ timer' = [timer EXCEPT !.end_time = timer.start_time + e]
          /\ trial_log' = [trial_log EXCEPT ![Len(trial_log)].stopped = TRUE,
                                            ![Len(trial_log)].elapsed = e]
    /\ total_time' = IF IsTimed(trial) THEN FAdd(total_time, get_elapsed_seconds(timer'))
                                       ELSE total_time
    /\ trial' = trial + 1
    /\ pc' = "loop"
    /\ UNCHANGED <<A, B, C, op, convVars, validateVars, omp_threads, config, fn, result,
                   generated, mainVars, taskVars, profilerVars>>

\* (a variant that counts a square product)
dense_flops_Square(cfg) == 2 * cfg.m * cfg.m * cfg.m

\* result.flops = 2 * config.m * config.n * config.k
dense_flops(cfg) == 2 * cfg.m * cfg.n * cfg.k

\* result.flops = 2 * nnz * config.n
sparse_flops(nnz, cfg) == 2 * nnz * cfg.n

\* run_dense_experiment, after the loop
Aggregate_dense ==
    /\ pc = "loop"
    /\ fn = "run_dense_experiment"
    /\ ~(trial < warmup + iterations)
    /\ LET time_seconds == FDiv(total_time, Double(iterations))
           flops == dense_flops(config)
           bytes == (config.m * config.k + config.k * config.n + config.m * config.n)
                        * sizeof_float
       IN  result' = [result EXCEPT
                         !.time_seconds = time_seconds,
                         !.flops = flops,
                         !.gflops = FDiv(FDiv(Double(flops), Giga), time_seconds),
                         !.bytes_accessed = bytes,
                         !.arithmetic_intensity = FDiv(Double(flops), Double(bytes))]
    /\ pc' = "return"
    /\ UNCHANGED <<A, B, C, op, convVars, validateVars, omp_threads, config, fn, trial,
                   total_time, timer, trial_log, generated, mainVars, taskVars,
                   profilerVars>>

\* run_sparse_experiment, after the loop
Aggregate_sparse ==
    /\ pc = "loop"
    /\ fn = "run_sparse_experiment"
    /\ ~(trial < warmup + iterations)
    /\ \E tsc \in TscValues :
        LET time_seconds == FDiv(total_time, Double(iterations))
            nnz == Len(csr.values)
            flops == sparse_flops(nnz, config)
            bytes == nnz * (sizeof_float + sizeof_int)
                        + Len(csr.row_ptrs) * sizeof_size_t
                        + config.k * config.n * sizeof_float
                        + config.m * config.n * sizeof_float
        IN  result' = [result EXCEPT
                          !.time_seconds = time_seconds,
                          !.flops = flops,
                          !.gflops = FDiv(FDiv(Double(flops), Giga), time_seconds),
                          !.cpnz = FDiv(Double(tsc), Double(nnz)),
                          !.bytes_accessed = bytes,
                          !.arithmetic_intensity = FDiv(Double(flops), Double(bytes))]
    /\ pc' = "return"
    /\ UNCHANGED <<A, B, C, op, convVars, validateVars, omp_threads, config, fn, trial,
                   total_time, timer, trial_log, generated, mainVars, taskVars,
                   profilerVars>>

(***************************************************************************)
(* The engine called once, with any configuration.                          *)
(***************************************************************************)
KernelTypes == {"dense", "csr", "csc", "coo"}

Implementations == {"scalar", "simd", "omp", "simd_omp", "optimized", "tiled", "avx512"}

Configs(kernel_types) ==
    {ExperimentConfig(size, size, size, sparsity, num_threads, kernel_type, implementation) :
        size \in 1..MaxSize, sparsity \in {0, 500}, num_threads \in {DefaultThreads},
        kernel_type \in kernel_types, implementation \in Implementations}

InitEngine ==
    /\ A = Null /\ B = Null /\ C = Null /\ op = "none"
    /\ NoConversion
    /\ NoValidation
    /\ omp_threads = 0
    /\ NoEngine
    /\ NoTasks
    /\ NoProfiler
    /\ mpc = "direct" /\ exp = 0 /\ todo = <<>> /\ results = <<>> /\ files = <<>>
    /\ measured_memory_bw = 0 /\ failed = <<>>

Call_run_dense_experiment ==
    /\ mpc = "direct"
    /\ \E cfg \in Configs(KernelTypes \ {"csr", "csc"}) : Enter_run_dense_experiment(cfg)
    /\ UNCHANGED <<mainVars, taskVars, profilerVars>>

Call_run_sparse_experiment ==
    /\ mpc = "direct"
    /\ \E cfg \in Configs(KernelTypes \ {"dense"}) : Enter_run_sparse_experiment(cfg)
    /\ UNCHANGED <<mainVars, taskVars, profilerVars>>

NextEngine ==
    \/ Call_run_dense_experiment
    \/ Call_run_sparse_experiment
    \/ ResetC
    \/ TimerStart
    \/ InvokeKernel
    \/ KernelThrows
    \/ TimerStop
    \/ Aggregate_dense
    \/ Aggregate_sparse

SpecEngine == InitEngine /\ [][NextEngine]_vars

\* the sum of the timings of trials lo..hi of a log
RECURSIVE TimingSum(_, _, _)
TimingSum(log, lo, hi) ==
    IF lo > hi THEN 0 ELSE log[lo].elapsed + TimingSum(log, lo + 1, hi)

\* x and y are the same number
FEq(x, y) == x.num * y.den = y.num * x.den /\ x.e9 = y.e9

\* every trial begun has run to timer.stop(): no kernel has raised
NoKernelError == \A t \in 1..Len(trial_log) : trial_log[t].stopped

RecognizedKernelTypes == {"dense", "csr", "csc"}

DocumentedImplementations == {"scalar", "simd", "omp", "simd_omp", "optimized", "tiled"}

Family(kernel) ==
    IF kernel \in {"gemm_scalar", "gemm_avx2", "gemm_tiled", "gemm_optimized", "gemm_omp",
                   "gemm_avx2_omp"} THEN "dense"
    ELSE IF kernel \in {"csr_spmm_scalar", "csr_spmm_avx2", "csr_spmm_omp",
                        "csr_spmm_avx2_omp", "csr_spmm_tiled"} THEN "csr"
    ELSE "csc"

\* the implementation tags a kernel answers to; optimized / tiled is one tag, taken
\* to name the most combined kernel of a family
Strategies(kernel) ==
    CASE kernel \in {"gemm_scalar", "csr_spmm_scalar", "csc_spmm_scalar"} -> {"scalar"}
      [] kernel \in {"gemm_avx2", "csr_spmm_avx2", "csc_spmm_avx2"} -> {"simd"}
      [] kernel \in {"gemm_omp", "csr_spmm_omp", "csc_spmm_omp"} -> {"omp"}
      [] kernel = "gemm_avx2_omp" -> {"simd_omp"}
      [] kernel = "csr_spmm_avx2_omp" -> {"simd_omp", "optimized", "tiled"}
      [] kernel \in {"gemm_optimized", "gemm_tiled", "csr_spmm_tiled"} -> {"optimized", "tiled"}

\* C9: for a configuration whose kernel_type or implementation is not a
\* recognized tag, no kernel is run and the result returned is zero-valued.
C9_UnrecognizedTagIsHardError ==
    (fn # "none" /\ (config.kernel_type \notin RecognizedKernelTypes
                        \/ config.implementation \notin DocumentedImplementations)) =>
        /\ \A t \in 1..Len(trial_log) : trial_log[t].kernels = <<>>
        /\ pc = "return" => IsZero(result.time_seconds) /\ IsZero(result.gflops)

\* C10: for a configuration with a recognized kernel_type and a documented
\* implementation, every trial that has run invoked exactly one kernel, of the
\* family kernel_type names and of the strategy implementation names.
C10_OneKernelOfFamilyAndStrategy ==
    (fn # "none" /\ config.kernel_type \in RecognizedKernelTypes
                 /\ config.implementation \in DocumentedImplementations) =>
        \A t \in 1..Len(trial_log) :
            trial_log[t].stopped =>
                /\ Len(trial_log[t].kernels) = 1
                /\ Family(trial_log[t].kernels[1]) = config.kernel_type
                /\ config.implementation \in Strategies(trial_log[t].kernels[1])

(***************************************************************************)
(* main (main.cpp) and the experiments (benchmark.cpp).  The matrices of   *)
(* the experiments are scaled down: the size 32 * 2^e is modelled by e + 1. *)
(***************************************************************************)
ModelSize(size) ==
    CASE size = 32 -> 1 [] size = 64 -> 2 [] size = 128 -> 3
      [] size = 256 -> 4 [] size = 512 -> 5 [] size = 1024 -> 6

\* a call of the engine an experiment makes
EngineCall(f, size, sparsity, num_threads, kernel_type, implementation) ==
    [fn |-> f,
     cfg |-> ExperimentConfig(ModelSize(size), ModelSize(size), ModelSize(size), sparsity,
                              num_threads, kernel_type, implementation)]

\* experiment_simd_threading_speedup: test_cases, in order
speedup_sweep ==
    LET test_cases == << <<"scalar", 1>>, <<"simd", 1>>, <<"omp", 2>>, <<"omp", 4>>,
                         <<"omp", 8>>, <<"simd_omp", 2>>, <<"simd_omp", 4>>,
                         <<"simd_omp", 8>> >>
    IN  [x \in 1..Len(test_cases) |->
            EngineCall("run_dense_experiment", 1024, 0, test_cases[x][2], "dense",
                       test_cases[x][1])]

\* experiment_density_break_even: per sparsity, the dense and then the sparse run
density_sweep ==
    LET sparsities == <<1, 5, 10, 20, 50, 100, 200, 500>>
    IN  [x \in 1..(2 * Len(sparsities)) |->
            IF x % 2 = 1
            THEN EngineCall("run_dense_experiment", 1024, sparsities[(x + 1) \div 2], 1,
                            "dense", "simd")
            ELSE EngineCall("run_sparse_experiment", 1024, sparsities[(x + 1) \div 2], 1,
                            "csr", "simd")]

\* experiment_working_set_transitions: one dense run per size
working_set_sweep ==
    LET sizes == <<32, 64, 128, 256, 512, 1024>>
    IN  [x \in 1..Len(sizes) |->
            EngineCall("run_dense_experiment", sizes[x], 0, 1, "dense", "simd")]

\* experiment_roofline_analysis: per size and sparsity, a dense or a sparse run
roofline_sweep ==
    LET sizes == <<64, 128, 256, 512, 1024>>
        sparsities == <<0, 100, 500, 900>>
    IN  [x \in 1..(Len(sizes) * Len(sparsities)) |->
            LET size == sizes[((x - 1) \div Len(sparsities)) + 1]
                sparsity == sparsities[((x - 1) % Len(sparsities)) + 1]
            IN  IF sparsity = 0
                THEN EngineCall("run_dense_experiment", size, sparsity, 1, "dense", "simd")
                ELSE EngineCall("run_sparse_experiment", size, sparsity, 1, "csr", "simd")]

\* run_comprehensive_benchmarks with the BenchmarkConfig of main: per size,
\* sparsity and thread count a dense run and, if sparsity > 0.001, a sparse run
comprehensive_sweep ==
    LET sizes == <<64, 128, 256, 512, 1024>>
        sparsities == <<1, 5, 10, 20, 50, 100, 200, 500>>
        thread_counts == <<1, 2, 4, 8, 16>>
        Runs(size, sparsity, threads) ==
            LET dense == EngineCall("run_dense_experiment", size, sparsity, threads,
                                    "dense", "optimized")
                sparse == EngineCall("run_sparse_experiment", size, sparsity, threads,
                                     "csr", "optimized")
            IN  IF sparsity > 1 THEN <<dense, sparse>> ELSE <<dense>>
    IN  ForLoop(LAMBDA a1, x:
            ForLoop(LAMBDA a2, y:
                ForLoop(LAMBDA a3, z: a3 \o Runs(sizes[x], sparsities[y], thread_counts[z]),
                        a2, 1, Len(thread_counts) + 1, 1),
                a1, 1, Len(sparsities) + 1, 1),
            <<>>, 1, Len(sizes) + 1, 1)

\* the experiments of main, in order; the first one makes no engine call
Experiments ==
    <<[name |-> "experiment_correctness_validation", sweep |-> <<>>, file |-> ""],
      [name |-> "experiment_simd_threading_speedup", sweep |-> speedup_sweep,
       file |-> "raw_data/speedup_analysis.csv"],
      [name |-> "experiment_density_break_even", sweep |-> density_sweep,
       file |-> "raw_data/density_break_even.csv"],
      [name |-> "experiment_working_set_transitions", sweep |-> working_set_sweep,
       file |-> "raw_data/working_set_transitions.csv"],
      [name |-> "experiment_roofline_analysis", sweep |-> roofline_sweep,
       file |-> "raw_data/roofline_analysis.csv"],
      [name |-> "run_comprehensive_benchmarks", sweep |-> comprehensive_sweep,
       file |-> "raw_data/comprehensive_results.csv"]>>

\* the part of a sweep that is run
Sampled(sweep) ==
    IF Len(sweep) <= MaxSweep THEN sweep
    ELSE SubSeq(sweep, 1, MaxSweep - 1) \o <<sweep[Len(sweep)]>>

\* the first line save_results_csv writes: the names of the fields
Header ==
    <<"kernel_type", "implementation", "size", "sparsity", "threads", "time_seconds",
      "gflops", "cpnz", "flops", "bytes_accessed", "arithmetic_intensity">>

\* a row whose last three columns are written in another order than the header's
Row_ColumnsSwapped(r) ==
    <<r.kernel_type, r.implementation, r.size, r.sparsity, r.threads, r.time_seconds,
      r.gflops, r.cpnz, r.bytes_accessed, r.flops, r.arithmetic_intensity>>

\* the line save_results_csv writes for a result: its fields, in order
Row(r) ==
    <<r.kernel_type, r.implementation, r.size, r.sparsity, r.threads, r.time_seconds,
      r.gflops, r.cpnz, r.flops, r.bytes_accessed, r.arithmetic_intensity>>

\* the file is the sequence of its lines: the header, then one row per result
save_results_csv(filename, rs) ==
    [name |-> filename,
     lines |-> ForLoop(LAMBDA file, x: Append(file, Row(rs[x])), <<Header>>, 1, Len(rs) + 1, 1)]

\* the file experiment_working_set_transitions writes after its results
cache_characterization(bw) ==
    [name |-> "raw_data/cache_characterization.csv",
     lines |-> << <<"cache_level", "size_bytes", "size_human", "memory_bandwidth_gb_s">>,
                  <<"L1", 32 * 1024, "32KB", bw>>, <<"L2", 256 * 1024, "256KB", bw>>,
                  <<"L3", 12 * 1024 * 1024, "12MB", bw>>, <<"DRAM", 0, ">L3", bw>> >>]

\* the bandwidth measure_memory_bandwidth can return, in GB/s
BandwidthValues == {20}

\* float tolerance = 1e-5
default_tolerance == [num |-> 1, den |-> 100000]

InitMain ==
    /\ A = Null /\ B = Null /\ C = Null /\ op = "none"
    /\ NoConversion
    /\ NoValidation
    /\ omp_threads = 0
    /\ NoEngine
    /\ NoTasks
    /\ NoProfiler
    /\ mpc = "main" /\ exp = 1 /\ todo = <<>> /\ results = <<>> /\ files = <<>>
    /\ measured_memory_bw = 0 /\ failed = <<>>

\* experiment_correctness_validation: the operands and the reference result
CorrectnessValidation_scalar ==
    /\ mpc = "main" /\ exp = 1
    /\ A' \in generate_random_dense(ModelSize(256), ModelSize(256), 100)
    /\ B' \in generate_random_dense(ModelSize(256), ModelSize(256), 0)
    /\ ref' = gemm_scalar(A', B', DenseMatrix(ModelSize(256), ModelSize(256)), FALSE, FALSE)
    /\ op' = "gemm_scalar"
    /\ mpc' = "validate_dense"
    /\ UNCHANGED <<taskVars, C, convVars, test, tolerance, verdict, omp_threads,
                   engineVars, exp, todo,
                   results, files, measured_memory_bw, failed, profilerVars>>

\* experiment_correctness_validation: the vectorized dense kernel is validated
CorrectnessValidation_avx2 ==
    /\ mpc = "validate_dense"
    /\ \E junk \in JunkValues :
          test' = gemm_avx2(A, B, DenseMatrix(ModelSize(256), ModelSize(256)), junk)
    /\ tolerance' = default_tolerance
    /\ verdict' = IF validate_results(ref, test', default_tolerance) THEN "true" ELSE "false"
    /\ op' = "gemm_avx2"
    /\ mpc' = "validate_sparse"
    /\ UNCHANGED <<taskVars, A, B, C, convVars, ref, omp_threads, engineVars, exp,
                   todo, results,
                   files, measured_memory_bw, failed, profilerVars>>

\* experiment_correctness_validation: the vectorized CSR kernel is validated
CorrectnessValidation_csr ==
    /\ mpc = "validate_sparse"
    /\ csr' = dense_to_csr(A)
    /\ \E junk \in JunkValues :
          test' = csr_spmm_avx2(csr', B, DenseMatrix(ModelSize(256), ModelSize(256)), junk)
    /\ verdict' = IF validate_results(ref, test', default_tolerance) THEN "true" ELSE "false"
    /\ op' = "csr_spmm_avx2"
    /\ mpc' = "main"
    /\ exp' = exp + 1
    /\ UNCHANGED <<taskVars, A, B, C, csc, writes, ref, tolerance, omp_threads,
                   engineVars, todo,
                   results, files, measured_memory_bw, failed, profilerVars>>

\* experiment_correctness_validation calls its kernels outside any try block and
\* main has none: an error a kernel raises there ends the program
CorrectnessValidation_throws ==
    /\ mpc \in {"main", "validate_dense", "validate_sparse"}
    /\ mpc = "main" => exp = 1
    /\ Len(failed) < MaxErrors
    /\ failed' = Append(failed, [exp |-> exp,
                                 kernel |-> CASE mpc = "main" -> "gemm_scalar"
                                              [] mpc = "validate_dense" -> "gemm_avx2"
                                              [] mpc = "validate_sparse" -> "csr_spmm_avx2"])
    /\ mpc' = "terminated"
    /\ UNCHANGED <<taskVars, A, B, C, op, convVars, validateVars, omp_threads,
                   engineVars, exp, todo,
                   results, files, measured_memory_bw, profilerVars>>

\* (a variant that counts 8 bytes per element)
working_set_bytes_Wide(matrix_size) == 3 * matrix_size * matrix_size * 2 * sizeof_float

\* size_t working_set_bytes = 3 * matrix_size * matrix_size * sizeof(float)
working_set_bytes(matrix_size) == 3 * matrix_size * matrix_size * sizeof_float

\* the first statements of an experiment that sweeps configurations
StartSweep ==
    /\ mpc = "main"
    /\ exp \in 2..Len(Experiments)
    /\ IF Experiments[exp].name \in {"experiment_working_set_transitions",
                                     "experiment_roofline_analysis"}
          /\ measured_memory_bw = 0
       THEN measured_memory_bw' \in BandwidthValues
       ELSE UNCHANGED measured_memory_bw
    /\ results' = <<>>
    /\ todo' = Sampled(Experiments[exp].sweep)
    /\ mpc' = "sweep"
    /\ UNCHANGED <<taskVars, A, B, C, op, convVars, validateVars, omp_threads,
                   engineVars, exp, files,
                   failed, profilerVars>>

\* auto result = run_dense_experiment(config) / run_sparse_experiment(config)
CallEngine ==
    /\ mpc = "sweep"
    /\ todo # <<>>
    /\ \/ /\ Head(todo).fn = "run_dense_experiment"
          /\ Enter_run_dense_experiment(Head(todo).cfg)
       \/ /\ Head(todo).fn = "run_sparse_experiment"
          /\ Enter_run_sparse_experiment(Head(todo).cfg)
    /\ UNCHANGED <<mainVars, taskVars, profilerVars>>

\* results.push_back(result), after the engine has returned
ReturnToExperiment ==
    /\ mpc = "sweep"
    /\ pc = "return"
    /\ results' = Append(results,
          IF Experiments[exp].name = "experiment_working_set_transitions"
          THEN [result EXCEPT !.bytes_accessed = working_set_bytes(config.m)]
          ELSE result)
    /\ todo' = Tail(todo)
    /\ A' = Null /\ B' = Null /\ C' = Null /\ csr' = NoCSR
    /\ config' = NoConfig /\ fn' = "none" /\ pc' = "idle" /\ trial' = 0
    /\ total_time' = Double(0) /\ timer' = PerformanceCounter
    /\ result' = ExperimentResult /\ trial_log' = <<>> /\ generated' = 0
    /\ UNCHANGED <<taskVars, op, csc, writes, validateVars, omp_threads, mpc, exp, files,
                   measured_memory_bw, failed, profilerVars>>

\* save_results_csv(...), and the return to main
SaveResults ==
    /\ mpc = "sweep"
    /\ pc = "idle"
    /\ todo = <<>>
    /\ files' = files \o <<save_results_csv(Experiments[exp].file, results)>>
                      \o IF Experiments[exp].name = "experiment_working_set_transitions"
                         THEN <<cache_characterization(measured_memory_bw)>>
                         ELSE <<>>
    /\ results' = <<>>
    /\ exp' = exp + 1
    /\ mpc' = IF exp = Len(Experiments) THEN "exit" ELSE "main"
    /\ UNCHANGED <<taskVars, A, B, C, op, convVars, validateVars, omp_threads,
                   engineVars, todo,
                   measured_memory_bw, failed, profilerVars>>

NextMain ==
    \/ CorrectnessValidation_scalar
    \/ CorrectnessValidation_avx2
    \/ CorrectnessValidation_csr
    \/ CorrectnessValidation_throws
    \/ StartSweep
    \/ CallEngine
    \/ ResetC
    \/ TimerStart
    \/ InvokeKernel
    \/ KernelThrows
    \/ TimerStop
    \/ Aggregate_dense
    \/ Aggregate_sparse
    \/ ReturnToExperiment
    \/ SaveResults

SpecMain == InitMain /\ [][NextMain]_vars

\* C8: no kernel error ends the program or an experiment: whenever kernel
\* invocations have raised, main still reaches its end, and by then every
\* invocation that raised has a row with time_seconds = 0 and gflops = 0 in the
\* file of its experiment.
C8_KernelErrorAbortsOnlyItsConfiguration ==
    /\ mpc # "terminated"
    /\ mpc = "exit" =>
          \A f \in 1..Len(failed) :
              \E x \in 1..Len(files) :
                  /\ files[x].name = Experiments[failed[f].exp].file
                  /\ \E y \in 2..Len(files[x].lines) :
                        IsZero(files[x].lines[y][6]) /\ IsZero(files[x].lines[y][7])

(***************************************************************************)
(* Kernels called on operands of any shapes.  No kernel compares the       *)
(* shapes of its operands: gemm_scalar takes M and N from C and K from A,  *)
(* csr_spmm_scalar takes M from A and N from B.  A call whose accesses     *)
(* leave a vector has undefined behaviour; the calls followed here are     *)
(* those whose accesses all stay inside the vectors.                       *)
(***************************************************************************)
MaxShape == 2       \* each of the six dimensions of A, B and C ranges over 1..MaxShape

Conformant(a, b, c) == a.rows = c.rows /\ a.cols = b.rows /\ b.cols = c.cols

\* the largest element accessed by the loops of gemm_scalar is inside each vector
InBounds_gemm_scalar(a, b, c) ==
    /\ Index(a, c.rows - 1, a.cols - 1) < Len(a.data)
    /\ Index(b, a.cols - 1, c.cols - 1) < Len(b.data)
    /\ Index(c, c.rows - 1, c.cols - 1) < Len(c.data)

\* the largest element accessed by the loops of csr_spmm_scalar is inside each vector
InBounds_csr_spmm_scalar(a, b, c) ==
    /\ a.rows * b.cols <= Len(c.data)
    /\ Index(c, a.rows - 1, b.cols - 1) < Len(c.data)
    /\ \A x \in 1..Len(a.col_indices) :
          Index(b, a.col_indices[x], b.cols - 1) < Len(b.data)

InitShapes ==
    /\ \E ra \in 1..MaxShape, ca \in 1..MaxShape, rb \in 1..MaxShape,
          cb \in 1..MaxShape, rc \in 1..MaxShape, cc \in 1..MaxShape :
          /\ A \in DenseLeftOperands(ra, ca)
          /\ B \in RightOperands(rb, cb)
          /\ C \in {Filled(rc, cc, v) : v \in OutputFills}
    /\ op = "none"
    /\ NoConversion
    /\ NoValidation
    /\ NoBenchmark
    /\ NoTasks
    /\ NoProfiler

Shapes_gemm_scalar ==
    /\ op = "none"
    /\ InBounds_gemm_scalar(A, B, C)
    /\ C_entry' = C
    /\ C' = gemm_scalar(A, B, C, FALSE, FALSE)
    /\ op' = "gemm_scalar"
    /\ UNCHANGED <<A, B, convVars, validateVars, omp_threads, engineVars, mainVars,
                   outputs, accesses, loops, regionVars, profilerVars>>

Shapes_csr_spmm_scalar ==
    /\ op = "none"
    /\ InBounds_csr_spmm_scalar(dense_to_csr(A), B, C)
    /\ C_entry' = C
    /\ csr' = dense_to_csr(A)
    /\ C' = csr_spmm_scalar(dense_to_csr(A), B, C)
    /\ op' = "csr_spmm_scalar"
    /\ UNCHANGED <<A, B, csc, writes, validateVars, omp_threads, engineVars, mainVars,
                   outputs, accesses, loops, regionVars, profilerVars>>

NextShapes == Shapes_gemm_scalar \/ Shapes_csr_spmm_scalar

SpecShapes == InitShapes /\ [][NextShapes]_vars

\* C11: a kernel called with operands whose shapes do not conform
\* (A.rows # C.rows, A.cols # B.rows or B.cols # C.cols) ends in an error and
\* has written no cell of C.
C11_ShapeMismatchFailsFast ==
    op # "none" /\ ~Conformant(A, B, C) => op = "error" /\ C = C_entry

(***************************************************************************)
(* The parallel loop of a kernel (#pragma omp parallel for).  An iteration *)
(* of the loop is the sequence of its accesses to C, in program order:     *)
(*   store   C(i, j) = val                                                  *)
(*   add     C(i, j) += val, a load of the cell followed by a store         *)
(*   atomic  C(i, j) += val under #pragma omp atomic, one indivisible step  *)
(* val is computed from A and B, which no iteration writes.  A vector      *)
(* store or load is followed lane by lane.  The threads of the team take   *)
(* the iterations from the loop in loop order, whenever they are free, so  *)
(* every assignment of the iterations to the threads occurs.  The loops    *)
(* that zero C before the parallel loop end with a barrier of their own    *)
(* and are done in one step with the entry of the kernel.                  *)
(***************************************************************************)
MaxThreads == 2     \* threads of the team
MaxOmp == 2         \* m and k range over 1..MaxOmp, n over 1..MaxOmp and SimdWidth + 1

StoreOp(c, i, j, v) == [kind |-> "store", cell |-> Index(c, i, j) + 1, val |-> v]

AddOp(c, i, j, v) == [kind |-> "add", cell |-> Index(c, i, j) + 1, val |-> v]

\* (a variant without the atomic directive)
AtomicOp_NotAtomic(c, i, j, v) == [kind |-> "add", cell |-> Index(c, i, j) + 1, val |-> v]

AtomicOp(c, i, j, v) == [kind |-> "atomic", cell |-> Index(c, i, j) + 1, val |-> v]

\* collapse(2) over i and j
Iterations_gemm_scalar(a, b, c) ==
    LET M == c.rows
        N == c.cols
        K == a.cols
        Iteration(i, j) ==
            LET sum == ForLoop(LAMBDA s, k: s + At(a, i, k) * At(b, k, j), 0, 0, K, 1)
            IN  <<StoreOp(c, i, j, sum)>>
    IN  ForLoop(LAMBDA qi, i: ForLoop(LAMBDA qj, j: Append(qj, Iteration(i, j)), qi, 0, N, 1),
                <<>>, 0, M, 1)

\* one iteration per row i
Iterations_gemm_avx2(a, b, c, junk) ==
    LET M == c.rows
        N == c.cols
        K == a.cols
        Block(ops, i, j) ==
            LET accum == ForLoop(LAMBDA acc, k:
                             fmadd_ps(set1_ps(At(a, i, k)),
                                      loadu_ps(b, Index(b, k, j), junk), acc),
                             setzero_ps, 0, K, 1)
                remaining == N - j
            IN  ForLoop(LAMBDA o, jj: Append(o, StoreOp(c, i, j + jj, accum[jj + 1])),
                        ops, 0, Min(remaining, SimdWidth), 1)
        Iteration(i) == ForLoop(LAMBDA ops, j: Block(ops, i, j), <<>>, 0, N, SimdWidth)
    IN  ForLoop(LAMBDA q, i: Append(q, Iteration(i)), <<>>, 0, M, 1)

\* collapse(2) over the tiles (i0, j0)
Iterations_gemm_tiled(a, b, c, tile_size) ==
    LET M == c.rows
        N == c.cols
        K == a.cols
        Iteration(i0, j0) ==
            LET i_end == Min(i0 + tile_size, M)
                j_end == Min(j0 + tile_size, N)
                KBlock(ops, k0) ==
                    LET k_end == Min(k0 + tile_size, K)
                    IN  ForLoop(LAMBDA oi, i:
                            ForLoop(LAMBDA ok, k:
                                ForLoop(LAMBDA oj, j:
                                    Append(oj, AddOp(c, i, j, At(a, i, k) * At(b, k, j))),
                                    ok, j0, j_end, 1),
                                oi, k0, k_end, 1),
                            ops, i0, i_end, 1)
            IN  ForLoop(LAMBDA ops, k0: KBlock(ops, k0), <<>>, 0, K, tile_size)
    IN  ForLoop(LAMBDA qi, i0:
            ForLoop(LAMBDA qj, j0: Append(qj, Iteration(i0, j0)), qi, 0, N, tile_size),
            <<>>, 0, M, tile_size)

\* process_block_avx2: the first k-block stores, the later ones load C and store
Ops_process_block_avx2(ops0, i_start, i_end, j_start, j_end, k_start, k_end, a, b, c, junk) ==
    LET Block(ops, i, j) ==
            LET sum == ForLoop(LAMBDA acc, k:
                           fmadd_ps(set1_ps(At(a, i, k)),
                                    loadu_ps(b, Index(b, k, j), junk), acc),
                           setzero_ps, k_start, k_end, 1)
                remaining == j_end - j
            IN  ForLoop(LAMBDA o, jj:
                            Append(o, IF k_start = 0
                                      THEN StoreOp(c, i, j + jj, sum[jj + 1])
                                      ELSE AddOp(c, i, j + jj, sum[jj + 1])),
                        ops, 0, Min(remaining, SimdWidth), 1)
    IN  ForLoop(LAMBDA oi, i:
            ForLoop(LAMBDA oj, j: Block(oj, i, j), oi, j_start, j_end, SimdWidth),
            ops0, i_start, i_end, 1)

\* collapse(2) over the tiles (i0, j0)
Iterations_gemm_optimized(a, b, c, tile_size, junk) ==
    LET M == c.rows
        N == c.cols
        K == a.cols
        Iteration(i0, j0) ==
            LET i_end == Min(i0 + tile_size, M)
                j_end == Min(j0 + tile_size, N)
            IN  ForLoop(LAMBDA ops, k0:
                    Ops_process_block_avx2(ops, i0, i_end, j0, j_end,
                                           k0, Min(k0 + tile_size, K), a, b, c, junk),
                    <<>>, 0, K, tile_size)
    IN  ForLoop(LAMBDA qi, i0:
            ForLoop(LAMBDA qj, j0: Append(qj, Iteration(i0, j0)), qi, 0, N, tile_size),
            <<>>, 0, M, tile_size)

\* one iteration per row i of A
Iterations_csr_spmm_scalar(a, b, c) ==
    LET M == a.rows
        N == b.cols
        Iteration(i) ==
            ForLoop(LAMBDA ok, k_idx:
                ForLoop(LAMBDA oj, j:
                    Append(oj, AddOp(c, i, j, a.values[k_idx + 1]
                                              * At(b, a.col_indices[k_idx + 1], j))),
                    ok, 0, N, 1),
                <<>>, a.row_ptrs[i + 1], a.row_ptrs[i + 2], 1)
    IN  ForLoop(LAMBDA q, i: Append(q, Iteration(i)), <<>>, 0, M, 1)

\* one iteration per row i of A: each vector of C is loaded once and stored once
Iterations_csr_spmm_avx2(a, b, c) ==
    LET M == a.rows
        N == b.cols
        Block(ops, i, j) ==
            LET remaining == Min(SimdWidth, N - j)
                sum == ForLoop(LAMBDA acc, k_idx:
                           fmadd_ps(set1_ps(a.values[k_idx + 1]),
                                    load_partial(b, Index(b, a.col_indices[k_idx + 1], j),
                                                 remaining),
                                    acc),
                           setzero_ps, a.row_ptrs[i + 1], a.row_ptrs[i + 2], 1)
            IN  ForLoop(LAMBDA o, jj: Append(o, AddOp(c, i, j + jj, sum[jj + 1])),
                        ops, 0, remaining, 1)
        Iteration(i) == ForLoop(LAMBDA ops, j: Block(ops, i, j), <<>>, 0, N, SimdWidth)
    IN  ForLoop(LAMBDA q, i: Append(q, Iteration(i)), <<>>, 0, M, 1)

\* (a variant whose tiles all run to the last column)
Iterations_csr_spmm_tiled_NoClip(a, b, c, tile_cols) ==
    LET M == a.rows
        N == b.cols
        Iteration(j0) ==
            LET j_end == N
            IN  ForLoop(LAMBDA oi, i:
                    ForLoop(LAMBDA ok, k_idx:
                        ForLoop(LAMBDA oj, j:
                            Append(oj, AddOp(c, i, j, a.values[k_idx + 1]
                                                      * At(b, a.col_indices[k_idx + 1], j))),
                            ok, j0, j_end, 1),
                        oi, a.row_ptrs[i + 1], a.row_ptrs[i + 2], 1),
                    <<>>, 0, M, 1)
    IN  ForLoop(LAMBDA q, j0: Append(q, Iteration(j0)), <<>>, 0, N, tile_cols)

\* one iteration per tile of columns j0
Iterations_csr_spmm_tiled(a, b, c, tile_cols) ==
    LET M == a.rows
        N == b.cols
        Iteration(j0) ==
            LET j_end == Min(j0 + tile_cols, N)
            IN  ForLoop(LAMBDA oi, i:
                    ForLoop(LAMBDA ok, k_idx:
                        ForLoop(LAMBDA oj, j:
                            Append(oj, AddOp(c, i, j, a.values[k_idx + 1]
                                                      * At(b, a.col_indices[k_idx + 1], j))),
                            ok, j0, j_end, 1),
                        oi, a.row_ptrs[i + 1], a.row_ptrs[i + 2], 1),
                    <<>>, 0, M, 1)
    IN  ForLoop(LAMBDA q, j0: Append(q, Iteration(j0)), <<>>, 0, N, tile_cols)

\* one iteration per column j of A
Iterations_csc_spmm_omp(a, b, c) ==
    LET N == b.cols
        Iteration(j) ==
            ForLoop(LAMBDA ok, k_idx:
                ForLoop(LAMBDA o, k:
                    Append(o, AtomicOp(c, a.row_indices[k_idx + 1], k,
                                       a.values[k_idx + 1] * At(b, j, k))),
                    ok, 0, N, 1),
                <<>>, a.col_ptrs[j + 1], a.col_ptrs[j + 2], 1)
    IN  ForLoop(LAMBDA q, j: Append(q, Iteration(j)), <<>>, 0, a.cols, 1)

\* the kernels whose accumulation loop is a parallel loop
ParallelKernels ==
    {"gemm_scalar", "gemm_avx2", "gemm_tiled", "gemm_optimized", "gemm_omp",
     "gemm_avx2_omp", "csr_spmm_scalar", "csr_spmm_avx2", "csr_spmm_omp",
     "csr_spmm_avx2_omp", "csr_spmm_tiled", "csc_spmm_omp"}

\* the iterations of the parallel loop of kernel
Iterations(kernel, a, b, c, tile, junk) ==
    CASE kernel \in {"gemm_scalar", "gemm_omp"} -> Iterations_gemm_scalar(a, b, c)
      [] kernel \in {"gemm_avx2", "gemm_avx2_omp"} -> Iterations_gemm_avx2(a, b, c, junk)
      [] kernel = "gemm_tiled" -> Iterations_gemm_tiled(a, b, c, tile)
      [] kernel = "gemm_optimized" -> Iterations_gemm_optimized(a, b, c, tile, junk)
      [] kernel \in {"csr_spmm_scalar", "csr_spmm_omp"} ->
             Iterations_csr_spmm_scalar(dense_to_csr(a), b, c)
      [] kernel \in {"csr_spmm_avx2", "csr_spmm_avx2_omp"} ->
             Iterations_csr_spmm_avx2(dense_to_csr(a), b, c)
      [] kernel = "csr_spmm_tiled" -> Iterations_csr_spmm_tiled(dense_to_csr(a), b, c, tile)
      [] kernel = "csc_spmm_omp" -> Iterations_csc_spmm_omp(dense_to_csc(a), b, c)

\* C as the statements before the parallel loop leave it
Prologue(kernel, a, c) ==
    IF kernel \in {"gemm_scalar", "gemm_omp"} THEN c
    ELSE IF kernel \in {"gemm_avx2", "gemm_avx2_omp", "gemm_tiled", "gemm_optimized"}
         THEN Assign(c, c.rows * c.cols, 0)
         ELSE ZeroFill(c, a.rows * c.cols)

\* the kernel run by one thread, iteration after iteration
Serial(kernel, a, b, c, tile, junk) ==
    CASE kernel = "gemm_scalar" -> gemm_scalar(a, b, c, FALSE, FALSE)
      [] kernel = "gemm_avx2" -> gemm_avx2(a, b, c, junk)
      [] kernel = "gemm_tiled" -> gemm_tiled(a, b, c, tile)
      [] kernel = "gemm_optimized" -> gemm_optimized(a, b, c, DefaultThreads, tile, junk)
      [] kernel = "gemm_omp" -> gemm_omp(a, b, c, DefaultThreads)
      [] kernel = "gemm_avx2_omp" -> gemm_avx2_omp(a, b, c, DefaultThreads, junk)
      [] kernel = "csr_spmm_scalar" -> csr_spmm_scalar(dense_to_csr(a), b, c)
      [] kernel = "csr_spmm_avx2" -> csr_spmm_avx2(dense_to_csr(a), b, c, junk)
      [] kernel = "csr_spmm_omp" -> csr_spmm_omp(dense_to_csr(a), b, c, DefaultThreads)
      [] kernel = "csr_spmm_avx2_omp" ->
             csr_spmm_avx2_omp(dense_to_csr(a), b, c, DefaultThreads, junk)
      [] kernel = "csr_spmm_tiled" ->
             csr_spmm_tiled(dense_to_csr(a), b, c, tile, DefaultThreads)
      [] kernel = "csc_spmm_scalar" -> csc_spmm_scalar(dense_to_csc(a), b, c)
      [] kernel = "csc_spmm_avx2" -> csc_spmm_avx2(dense_to_csc(a), b, c, junk)
      [] kernel = "csc_spmm_omp" -> csc_spmm_omp(dense_to_csc(a), b, c, DefaultThreads)

Threads == 1..MaxThreads

Idle == [id |-> 0, ops |-> <<>>]

Empty == [full |-> FALSE, val |-> 0]

\* number the iterations in loop order
Numbered(its) == [x \in 1..Len(its) |-> [id |-> x, ops |-> its[x]]]

\* the team starts on the parallel loop
Fork(kernel, tile, junk) ==
    /\ C_entry' = C
    /\ C' = Prologue(kernel, A, C)
    /\ queue' = Numbered(Iterations(kernel, A, B, C, tile, junk))
    /\ work' = [t \in Threads |-> Idle]
    /\ completed' = [t \in Threads |-> 0]
    /\ reg' = [t \in Threads |-> Empty]
    /\ writers' = [x \in 1..Len(C.data) |-> {}]

\* thread t has finished the iteration it took, or has taken none yet
Free(t) == completed[t] = Len(work[t].ops)

\* the access thread t makes next
NextOp(t) == work[t].ops[completed[t] + 1]

\* thread t takes the next iteration of the loop
TakeIteration(t) ==
    /\ queue # <<>>
    /\ Free(t)
    /\ work' = [work EXCEPT ![t] = Head(queue)]
    /\ completed' = [completed EXCEPT ![t] = 0]
    /\ queue' = Tail(queue)
    /\ UNCHANGED <<C, reg, writers, profilerVars>>

\* C(i, j) = val
ExecStore(t) ==
    /\ ~Free(t)
    /\ NextOp(t).kind = "store"
    /\ C' = [C EXCEPT !.data[NextOp(t).cell] = NextOp(t).val]
    /\ writers' = [writers EXCEPT ![NextOp(t).cell] = @ \cup {work[t].id}]
    /\ completed' = [completed EXCEPT ![t] = @ + 1]
    /\ UNCHANGED <<queue, work, reg, profilerVars>>

\* C(i, j) += val, first half: the cell is loaded
ExecLoad(t) ==
    /\ ~Free(t)
    /\ NextOp(t).kind = "add"
    /\ ~reg[t].full
    /\ reg' = [reg EXCEPT ![t] = [full |-> TRUE, val |-> C.data[NextOp(t).cell]]]
    /\ UNCHANGED <<C, queue, work, completed, writers, profilerVars>>

\* C(i, j) += val, second half: the sum is stored
ExecAddStore(t) ==
    /\ ~Free(t)
    /\ NextOp(t).kind = "add"
    /\ reg[t].full
    /\ C' = [C EXCEPT !.data[NextOp(t).cell] = reg[t].val + NextOp(t).val]
    /\ reg' = [reg EXCEPT ![t] = Empty]
    /\ writers' = [writers EXCEPT ![NextOp(t).cell] = @ \cup {work[t].id}]
    /\ completed' = [completed EXCEPT ![t] = @ + 1]
    /\ UNCHANGED <<queue, work, profilerVars>>

\* #pragma omp atomic  C(i, j) += val
ExecAtomic(t) ==
    /\ ~Free(t)
    /\ NextOp(t).kind = "atomic"
    /\ C' = [C EXCEPT !.data[NextOp(t).cell] = @ + NextOp(t).val]
    /\ writers' = [writers EXCEPT ![NextOp(t).cell] = @ \cup {work[t].id}]
    /\ completed' = [completed EXCEPT ![t] = @ + 1]
    /\ UNCHANGED <<queue, work, reg, profilerVars>>

\* every iteration of the loop has been run to its end
AllDone == queue = <<>> /\ \A t \in Threads : Free(t)

(***************************************************************************)
(* One kernel call, followed access by access.                             *)
(***************************************************************************)
OmpSizes == (1..MaxOmp) \cup {SimdWidth + 1}

\* right operands whose cells are all nonzero, of both signs
OmpRightOperands(r, c) == {b \in RightOperands(r, c) : b.data[1] = -1}

InitOmp ==
    /\ \E m \in 1..MaxOmp, k \in 1..MaxOmp, n \in OmpSizes :
          /\ A \in DenseLeftOperands(m, k)
          /\ B \in OmpRightOperands(k, n)
          /\ C \in {Filled(m, n, v) : v \in OutputFills}
    /\ op = "none"
    /\ NoConversion
    /\ NoValidation
    /\ NoBenchmark
    /\ NoTasks
    /\ NoProfiler

\* a kernel has been entered and its team has started on the parallel loop
TeamStarted == op \in ParallelKernels \cup SparseKernels /\ work # <<>>

Omp_Call ==
    /\ op = "none"
    /\ \E kernel \in ParallelKernels, tile \in TileSizes, junk \in JunkValues :
          /\ Fork(kernel, tile, junk)
          /\ op' = kernel
          /\ omp_threads' = omp_set_num_threads(kernel, DefaultThreads, omp_threads)
    /\ UNCHANGED <<A, B, convVars, validateVars, engineVars, mainVars, outputs,
                   accesses, loops,
                   profilerVars>>

Omp_TakeIteration ==
    /\ TeamStarted
    /\ \E t \in Threads : TakeIteration(t)
    /\ UNCHANGED <<A, B, op, convVars, validateVars, omp_threads, engineVars, mainVars,
                   C_entry, outputs, accesses, loops, profilerVars>>

Omp_Store ==
    /\ TeamStarted
    /\ \E t \in Threads : ExecStore(t)
    /\ UNCHANGED <<A, B, op, convVars, validateVars, omp_threads, engineVars, mainVars,
                   C_entry, outputs, accesses, loops, profilerVars>>

Omp_Load ==
    /\ TeamStarted
    /\ \E t \in Threads : ExecLoad(t)
    /\ UNCHANGED <<A, B, op, convVars, validateVars, omp_threads, engineVars, mainVars,
                   C_entry, outputs, accesses, loops, profilerVars>>

Omp_AddStore ==
    /\ TeamStarted
    /\ \E t \in Threads : ExecAddStore(t)
    /\ UNCHANGED <<A, B, op, convVars, validateVars, omp_threads, engineVars, mainVars,
                   C_entry, outputs, accesses, loops, profilerVars>>

Omp_Atomic ==
    /\ TeamStarted
    /\ \E t \in Threads : ExecAtomic(t)
    /\ UNCHANGED <<A, B, op, convVars, validateVars, omp_threads, engineVars, mainVars,
                   C_entry, outputs, accesses, loops, profilerVars>>

\* the barrier at the end of the loop: the kernel returns
Omp_Return ==
    /\ TeamStarted
    /\ outputs = <<>>
    /\ AllDone
    /\ outputs' = <<[kernel |-> op, C |-> C]>>
    /\ UNCHANGED <<A, B, C, op, convVars, validateVars, omp_threads, engineVars, mainVars,
                   C_entry, accesses, loops, regionVars, profilerVars>>

NextOmp ==
    \/ Omp_Call
    \/ Omp_TakeIteration
    \/ Omp_Store
    \/ Omp_Load
    \/ Omp_AddStore
    \/ Omp_Atomic
    \/ Omp_Return

SpecOmp == InitOmp /\ [][NextOmp]_vars

\* the kernel has returned
Returned == outputs # <<>>

\* C12: in one call of a dense kernel or of a CSR kernel (csr_spmm_tiled
\* included), however the iterations of the parallel loop are given to the
\* threads, no cell of C is written by two different iterations.
C12_DisjointWrites ==
    op \in ParallelKernels \ {"csc_spmm_omp"} =>
        \A x \in 1..Len(writers) : Cardinality(writers[x]) <= 1

\* C12 witness: a tiled kernel has returned after two threads each ran an
\* iteration of more than one access on a matrix of several tiles.
C12_Witness ==
    /\ op = "csr_spmm_tiled"
    /\ Returned
    /\ \A t \in Threads : work[t].id # 0 /\ Len(work[t].ops) > 1
    /\ \E x \in 1..Len(writers) : writers[x] # {}

\* C13: in csc_spmm_omp several iterations (columns of A) update the same
\* cell of C, each update is indivisible, and under every interleaving the
\* kernel returns the C that the serial csc_spmm_scalar computes.
C13_AtomicUpdatesNotLost ==
    op = "csc_spmm_omp" /\ Returned =>
        C = csc_spmm_scalar(dense_to_csc(A), B, C_entry)

\* C13 witness: csc_spmm_omp has returned and a cell of C was updated by two
\* iterations.
C13_Witness ==
    /\ op = "csc_spmm_omp"
    /\ Returned
    /\ \E x \in 1..Len(writers) : Cardinality(writers[x]) >= 2

(***************************************************************************)
(* The engine's trial loop with the kernel call followed access by access: *)
(* the engine thread enters the kernel, the team runs the parallel loop,   *)
(* and the kernel returns to the engine from the barrier that ends the     *)
(* loop (no loop of the kernels has a nowait clause).                      *)
(***************************************************************************)
ForkJoinConfigs ==
    {ExperimentConfig(MaxOmp, MaxOmp, MaxOmp, 0, DefaultThreads, kernel_type, implementation) :
        kernel_type \in {"dense", "csr"}, implementation \in Implementations}

InitForkJoin ==
    /\ A = Null /\ B = Null /\ C = Null /\ op = "none"
    /\ NoConversion
    /\ NoValidation
    /\ NoBenchmark
    /\ NoTasks
    /\ NoProfiler

ForkJoin_run_dense_experiment ==
    /\ \E cfg \in {c \in ForkJoinConfigs : c.kernel_type = "dense"} :
          Enter_run_dense_experiment(cfg)
    /\ UNCHANGED <<mainVars, taskVars, profilerVars>>

ForkJoin_run_sparse_experiment ==
    /\ \E cfg \in {c \in ForkJoinConfigs : c.kernel_type = "csr"} :
          Enter_run_sparse_experiment(cfg)
    /\ UNCHANGED <<mainVars, taskVars, profilerVars>>

\* try { kernel(...) }: the engine thread enters the kernel selected
EnterKernel ==
    /\ pc = "try"
    /\ LET kernel == dispatch(fn, config)
       IN  /\ kernel \in ParallelKernels
           /\ \E junk \in JunkValues : Fork(kernel, DefaultTile, junk)
           /\ op' = kernel
           /\ omp_threads' = omp_set_num_threads(kernel, config.num_threads, omp_threads)
           /\ trial_log' = [trial_log EXCEPT ![Len(trial_log)].kernels = Append(@, kernel)]
    /\ pc' = "kernel"
    /\ UNCHANGED <<A, B, convVars, validateVars, config, fn, trial, total_time, timer,
                   result, generated, mainVars, outputs, accesses, loops, profilerVars>>

\* (a variant in which the loop ends with nowait and the kernel returns at once)
Barrier_NoWait == TRUE

\* the implicit barrier at the end of the parallel loop
Barrier == AllDone

\* the kernel returns to the engine
LeaveKernel ==
    /\ pc = "kernel"
    /\ Barrier
    /\ pc' = "stop"
    /\ UNCHANGED <<A, B, C, op, convVars, validateVars, omp_threads, config, fn, trial,
                   total_time, timer, result, trial_log, generated, mainVars, taskVars,
                   profilerVars>>

NextForkJoin ==
    \/ ForkJoin_run_dense_experiment
    \/ ForkJoin_run_sparse_experiment
    \/ ResetC
    \/ TimerStart
    \/ EnterKernel
    \/ Omp_TakeIteration
    \/ Omp_Store
    \/ Omp_Load
    \/ Omp_AddStore
    \/ LeaveKernel
    \/ KernelThrows
    \/ TimerStop
    \/ Aggregate_dense
    \/ Aggregate_sparse

SpecForkJoin == InitForkJoin /\ [][NextForkJoin]_vars

\* C14: a kernel invocation is a fork-join for the engine: whenever the engine
\* is outside the call (about to stop the timer, to zero C for the next trial,
\* to start the next trial's timer or to make the next call), every iteration
\* of the last invocation's parallel loop has run to its end.
C14_ForkJoin ==
    pc \in {"stop", "loop", "start", "try"} /\ work # <<>> => AllDone

\* C14 witness: the engine is about to stop the timer of a later trial after a
\* kernel invocation in which both threads ran iterations.
C14_Witness ==
    /\ pc = "stop"
    /\ trial >= 1
    /\ work # <<>>
    /\ \A t \in Threads : work[t].id # 0

(***************************************************************************)
(* One kernel called repeatedly on the same operands; the caller zeroes    *)
(* the output before each further call, as the trial loop of the engine    *)
(* does.  What a vector load reads past the end of a vector may differ     *)
(* from call to call.                                                      *)
(***************************************************************************)
MaxCalls == 2       \* calls made of the kernel

Kernels == ParallelKernels \cup {"csc_spmm_scalar", "csc_spmm_avx2"}

IsZeroMatrix(Mx) == \A x \in 1..Len(Mx.data) : Mx.data[x] = 0

InitRepeat ==
    /\ \E m \in 1..MaxM, k \in 1..MaxK, n \in NSizes :
          /\ A \in DenseLeftOperands(m, k)
          /\ B \in OmpRightOperands(k, n)
          /\ C \in {Filled(m, n, v) : v \in OutputFills}
    /\ op = "none"
    /\ NoConversion
    /\ NoValidation
    /\ NoBenchmark
    /\ NoTasks
    /\ NoProfiler

\* the kernel is called: the first time any kernel, later the same one again
Repeat_Call ==
    /\ op = "none"
    /\ Len(outputs) < MaxCalls
    /\ \E kernel \in Kernels, tile \in TileSizes, junk \in JunkValues :
          /\ outputs # <<>> => kernel = outputs[1].kernel /\ tile = outputs[1].tile
          /\ C' = Serial(kernel, A, B, C, tile, junk)
          /\ outputs' = Append(outputs, [kernel |-> kernel, tile |-> tile, entry |-> C,
                                         C |-> Serial(kernel, A, B, C, tile, junk)])
          /\ op' = kernel
          /\ omp_threads' = omp_set_num_threads(kernel, DefaultThreads, omp_threads)
    /\ C_entry' = C
    /\ UNCHANGED <<A, B, convVars, validateVars, engineVars, mainVars, accesses, loops,
                   regionVars,
                   profilerVars>>

\* std::fill(C->data.begin(), C->data.end(), 0.0f)
Repeat_ZeroOutput ==
    /\ op # "none"
    /\ Len(outputs) < MaxCalls
    /\ C' = [C EXCEPT !.data = [x \in 1..Len(C.data) |-> 0]]
    /\ op' = "none"
    /\ UNCHANGED <<A, B, convVars, validateVars, omp_threads, engineVars, mainVars,
                   taskVars,
                   profilerVars>>

NextRepeat == Repeat_Call \/ Repeat_ZeroOutput

SpecRepeat == InitRepeat /\ [][NextRepeat]_vars

MaxDim == 2         \* m, k and n each range over 1..MaxDim

MetricsConfigs(kernel_type) ==
    {ExperimentConfig(m, k, n, sparsity, DefaultThreads, kernel_type, "scalar") :
        m \in 1..MaxDim, k \in 1..MaxDim, n \in 1..MaxDim, sparsity \in {0, 500}}

InitMetrics ==
    /\ A = Null /\ B = Null /\ C = Null /\ op = "none"
    /\ NoConversion
    /\ NoValidation
    /\ omp_threads = 0
    /\ NoEngine
    /\ NoTasks
    /\ NoProfiler
    /\ mpc = "metrics" /\ exp = 0 /\ todo = <<>> /\ results = <<>> /\ files = <<>>
    /\ measured_memory_bw = 0 /\ failed = <<>>

\* the call is the first one, or repeats the first one
Metrics_Call(f, cfg) ==
    /\ mpc = "metrics"
    /\ Len(results) < 2
    /\ todo # <<>> => todo[1] = [fn |-> f, cfg |-> cfg]
    /\ todo' = <<[fn |-> f, cfg |-> cfg]>>
    /\ UNCHANGED <<mpc, exp, results, files, measured_memory_bw, failed, taskVars,
                   profilerVars>>

Metrics_run_dense_experiment ==
    \E cfg \in MetricsConfigs("dense") :
        Metrics_Call("run_dense_experiment", cfg) /\ Enter_run_dense_experiment(cfg)

Metrics_run_sparse_experiment ==
    \E cfg \in MetricsConfigs("csr") :
        Metrics_Call("run_sparse_experiment", cfg) /\ Enter_run_sparse_experiment(cfg)

\* return result; the caller keeps it
Metrics_Return ==
    /\ mpc = "metrics"
    /\ pc = "return"
    /\ results' = Append(results, result)
    /\ A' = Null /\ B' = Null /\ C' = Null /\ csr' = NoCSR
    /\ config' = NoConfig /\ fn' = "none" /\ pc' = "idle" /\ trial' = 0
    /\ total_time' = Double(0) /\ timer' = PerformanceCounter
    /\ result' = ExperimentResult /\ trial_log' = <<>> /\ generated' = 0
    /\ UNCHANGED <<taskVars, op, csc, writes, validateVars, omp_threads, mpc, exp, todo,
                   files, measured_memory_bw, failed, profilerVars>>

NextMetrics ==
    \/ Metrics_run_dense_experiment
    \/ Metrics_run_sparse_experiment
    \/ ResetC
    \/ TimerStart
    \/ InvokeKernel
    \/ KernelThrows
    \/ TimerStop
    \/ Aggregate_dense
    \/ Aggregate_sparse
    \/ Metrics_Return

SpecMetrics == InitMetrics /\ [][NextMetrics]_vars

\* the function has returned a result and no kernel has raised
Successful == pc = "return" /\ NoKernelError

\* C16: the flops of a successful result are fixed by the configuration and
\* the operand, whatever the timings: 2*m*n*k for a dense result (268435456
\* for m = n = k = 512), 2*nnz*n for a sparse result, nnz being the number of
\* values stored in the CSR operand, one per nonzero cell of A.
C16_FlopsFromConfiguration ==
    /\ dense_flops(ExperimentConfig(512, 512, 512, 0, 1, "dense", "scalar")) = 268435456
    /\ Successful =>
          /\ fn = "run_dense_experiment" =>
                result.flops = 2 * config.m * config.n * config.k
          /\ fn = "run_sparse_experiment" =>
                /\ result.flops = 2 * Len(csr.values) * config.n
                /\ Len(csr.values) = Cardinality(NonzeroCells(A))

\* C16 witness: a sparse result with nonzero flops of a configuration whose n
\* differs from m and from k, returned after timed trials of 0 and of 1.
C16_Witness ==
    /\ Successful
    /\ config.m # config.n /\ config.n # config.k
    /\ fn = "run_sparse_experiment"
    /\ result.flops > 0
    /\ \E t, u \in (warmup + 1)..(warmup + iterations) :
          trial_log[t].elapsed = 0 /\ trial_log[u].elapsed = 1

\* x > 0, for a finite x
IsPositive(x) == x.den # 0 /\ x.num * x.den > 0

\* C17: a successful result with time_seconds > 0 has gflops equal to
\* flops / 1e9 / time_seconds, strictly positive and finite, for dense and for
\* sparse configurations of every sparsity and size.
C17_GflopsPositiveFinite ==
    Successful /\ IsPositive(result.time_seconds) =>
        /\ FEq(result.gflops, FDiv(FDiv(Double(result.flops), Giga), result.time_seconds))
        /\ IsFinite(result.gflops)
        /\ IsPositive(result.gflops)

\* C18: the derived metrics of a result are functions of the averaged time
\* and of the static FLOP / byte model alone: two results that agree on the
\* configuration, time_seconds, flops (hence nnz) and bytes_accessed agree on
\* gflops, arithmetic_intensity and cpnz.
C18_MetricsFromAverageAndModel ==
    \A x \in 1..Len(results), y \in 1..Len(results) :
        /\ results[x].time_seconds = results[y].time_seconds
        /\ results[x].flops = results[y].flops
        /\ results[x].bytes_accessed = results[y].bytes_accessed
        => /\ results[x].gflops = results[y].gflops
           /\ results[x].arithmetic_intensity = results[y].arithmetic_intensity
           /\ FEq(results[x].cpnz, results[y].cpnz)

(***************************************************************************)
(* The files of the experiments.  main runs five named experiments and     *)
(* then run_comprehensive_benchmarks; between two of them mpc = "main" and *)
(* exp is the number of the next one, and files holds every file written   *)
(* so far.                                                                 *)
(***************************************************************************)
\* the named experiments of main: the entries of Experiments before
\* run_comprehensive_benchmarks
NamedExperiments ==
    {e \in 1..Len(Experiments) : Experiments[e].name # "run_comprehensive_benchmarks"}

\* C19: each named experiment writes exactly one results file: whenever main
\* is between two experiments, the named experiments that have returned have
\* written as many files as there are of them.
C19_OneFilePerExperiment ==
    mpc = "main" /\ (exp - 1) \in NamedExperiments => Len(files) = exp - 1

\* the field of a result that stands in a column of the header
Field(r, column) == r[Header[column]]

\* C20: a step that writes a results file writes the header line followed by one
\* row per ExperimentResult of the collection, in the order of the collection,
\* each row holding the 11 fields of its result in the order of the header; and
\* the collection holds one result per configuration the sweep has run, in the
\* order of the runs.
C20_HeaderThenOneRowPerResult ==
    [][Len(files') > Len(files) =>
          LET file == files'[Len(files) + 1]
              sweep == Sampled(Experiments[exp].sweep)
          IN  /\ file.name = Experiments[exp].file
              /\ Len(file.lines) = 1 + Len(results)
              /\ file.lines[1] = Header
              /\ \A y \in 1..Len(results) :
                    file.lines[y + 1] = [column \in 1..Len(Header) |-> Field(results[y], column)]
              /\ Len(results) = Len(sweep)
              /\ \A y \in 1..Len(sweep) :
                    /\ results[y].kernel_type = sweep[y].cfg.kernel_type
                    /\ results[y].implementation = sweep[y].cfg.implementation
                    /\ results[y].size = sweep[y].cfg.m
                    /\ results[y].sparsity = sweep[y].cfg.sparsity
                    /\ results[y].threads = sweep[y].cfg.num_threads]_vars

\* a file of at least two rows that differ has been written, one of them the
\* row of a run whose kernel raised an error
C20_Witness ==
    \E x \in 1..Len(files) :
        /\ files[x].name = "raw_data/density_break_even.csv"
        /\ Len(files[x].lines) >= 3
        /\ files[x].lines[1] = Header
        /\ files[x].lines[2][1] # files[x].lines[3][1]
        /\ \E y \in 2..Len(files[x].lines) : files[x].lines[y][9] # files[x].lines[y][10]
        /\ \E y \in 2..Len(files[x].lines) : IsZero(files[x].lines[y][6])

(***************************************************************************)
(* The loads and stores of a kernel call.  An access names the array it    *)
(* touches, the length of that array, the index of its first element and   *)
(* the number of consecutive elements (8 for a vector load or store, the   *)
(* number of floats copied for a memcpy), and the iteration of the         *)
(* parallel loop that makes it (0 outside the parallel loop).              *)
(***************************************************************************)
Load(array, data, first, lanes, task) ==
    [array |-> array, len |-> Len(data), kind |-> "load", first |-> first,
     lanes |-> lanes, task |-> task]

Store(array, data, first, lanes, task) ==
    [array |-> array, len |-> Len(data), kind |-> "store", first |-> first,
     lanes |-> lanes, task |-> task]

\* the number of the tile (i0, j0) in a collapse(2) loop over tiles of N columns
TileNumber(i0, j0, N, tile_size) ==
    (i0 \div tile_size) * ((N + tile_size - 1) \div tile_size) + (j0 \div tile_size) + 1

Accesses_gemm_scalar(a, b, c) ==
    LET M == c.rows
        N == c.cols
        K == a.cols
        Cell(acc, i, j) ==
            LET task == i * N + j + 1
            IN  Append(ForLoop(LAMBDA s, k:
                           s \o <<Load("A", a.data, Index(a, i, k), 1, task),
                                  Load("B", b.data, Index(b, k, j), 1, task)>>,
                           acc, 0, K, 1),
                       Store("C", c.data, Index(c, i, j), 1, task))
    IN  ForLoop(LAMBDA ai, i: ForLoop(LAMBDA aj, j: Cell(aj, i, j), ai, 0, N, 1),
                <<>>, 0, M, 1)

\* (a variant that stores the whole vector in the tail as well)
Accesses_gemm_avx2_FullStore(a, b, c) ==
    LET M == c.rows
        N == c.cols
        K == a.cols
        Block(acc, i, j) ==
            LET task == i + 1
                loads == ForLoop(LAMBDA s, k:
                             s \o <<Load("A", a.data, Index(a, i, k), 1, task),
                                    Load("B", b.data, Index(b, k, j), SimdWidth, task)>>,
                             acc, 0, K, 1)
            IN  Append(loads, Store("C", c.data, Index(c, i, j), SimdWidth, task))
    IN  ForLoop(LAMBDA ai, i: ForLoop(LAMBDA aj, j: Block(aj, i, j), ai, 0, N, SimdWidth),
                <<>>, 0, M, 1)

Accesses_gemm_avx2(a, b, c) ==
    LET M == c.rows
        N == c.cols
        K == a.cols
        Block(acc, i, j) ==
            LET task == i + 1
                loads == ForLoop(LAMBDA s, k:
                             s \o <<Load("A", a.data, Index(a, i, k), 1, task),
                                    Load("B", b.data, Index(b, k, j), SimdWidth, task)>>,
                             acc, 0, K, 1)
                remaining == N - j
            IN  IF remaining >= SimdWidth
                THEN Append(loads, Store("C", c.data, Index(c, i, j), SimdWidth, task))
                ELSE ForLoop(LAMBDA s, jj:
                                 Append(s, Store("C", c.data, Index(c, i, j + jj), 1, task)),
                             loads, 0, remaining, 1)
    IN  ForLoop(LAMBDA ai, i: ForLoop(LAMBDA aj, j: Block(aj, i, j), ai, 0, N, SimdWidth),
                <<>>, 0, M, 1)

Accesses_gemm_tiled(a, b, c, tile_size) ==
    LET M == c.rows
        N == c.cols
        K == a.cols
        Tile(acc, i0, j0) ==
            LET i_end == Min(i0 + tile_size, M)
                j_end == Min(j0 + tile_size, N)
                task == TileNumber(i0, j0, N, tile_size)
                KBlock(acck, k0) ==
                    LET k_end == Min(k0 + tile_size, K)
                    IN  ForLoop(LAMBDA si, i:
                            ForLoop(LAMBDA sk, k:
                                ForLoop(LAMBDA sj, j:
                                    sj \o <<Load("B", b.data, Index(b, k, j), 1, task),
                                            Load("C", c.data, Index(c, i, j), 1, task),
                                            Store("C", c.data, Index(c, i, j), 1, task)>>,
                                    Append(sk, Load("A", a.data, Index(a, i, k), 1, task)),
                                    j0, j_end, 1),
                                si, k0, k_end, 1),
                            acck, i0, i_end, 1)
            IN  ForLoop(LAMBDA s, k0: KBlock(s, k0), acc, 0, K, tile_size)
    IN  ForLoop(LAMBDA ai, i0:
            ForLoop(LAMBDA aj, j0: Tile(aj, i0, j0), ai, 0, N, tile_size),
            <<>>, 0, M, tile_size)

Accesses_process_block_avx2(acc0, i_start, i_end, j_start, j_end, k_start, k_end, a, b, c, task) ==
    LET Block(acc, i, j) ==
            LET first == IF k_start = 0
                         THEN acc
                         ELSE Append(acc, Load("C", c.data, Index(c, i, j), SimdWidth, task))
                loads == ForLoop(LAMBDA s, k:
                             s \o <<Load("A", a.data, Index(a, i, k), 1, task),
                                    Load("B", b.data, Index(b, k, j), SimdWidth, task)>>,
                             first, k_start, k_end, 1)
                remaining == j_end - j
            IN  IF remaining >= SimdWidth
                THEN Append(loads, Store("C", c.data, Index(c, i, j), SimdWidth, task))
                ELSE ForLoop(LAMBDA s, jj:
                                 Append(s, Store("C", c.data, Index(c, i, j + jj), 1, task)),
                             loads, 0, remaining, 1)
    IN  ForLoop(LAMBDA ai, i:
            ForLoop(LAMBDA aj, j: Block(aj, i, j), ai, j_start, j_end, SimdWidth),
            acc0, i_start, i_end, 1)

Accesses_gemm_optimized(a, b, c, tile_size) ==
    LET M == c.rows
        N == c.cols
        K == a.cols
        Tile(acc, i0, j0) ==
            LET i_end == Min(i0 + tile_size, M)
                j_end == Min(j0 + tile_size, N)
            IN  ForLoop(LAMBDA s, k0:
                    Accesses_process_block_avx2(s, i0, i_end, j0, j_end, k0,
                                                Min(k0 + tile_size, K), a, b, c,
                                                TileNumber(i0, j0, N, tile_size)),
                    acc, 0, K, tile_size)
    IN  ForLoop(LAMBDA ai, i0:
            ForLoop(LAMBDA aj, j0: Tile(aj, i0, j0), ai, 0, N, tile_size),
            <<>>, 0, M, tile_size)

\* for (size_t i = 0; i < M * N; ++i) C.data[i] = 0.0f;
Accesses_ZeroFill(c, n) ==
    ForLoop(LAMBDA s, i: Append(s, Store("C", c.data, i, 1, 0)), <<>>, 0, n, 1)

\* row_start = A.row_ptrs[i]; row_end = A.row_ptrs[i + 1]
Accesses_row_ptrs(acc, a, i, task) ==
    acc \o <<Load("A.row_ptrs", a.row_ptrs, i, 1, task),
             Load("A.row_ptrs", a.row_ptrs, i + 1, 1, task)>>

\* k = A.col_indices[k_idx]; a_val = A.values[k_idx]
Accesses_nonzero(acc, a, k_idx, task) ==
    acc \o <<Load("A.col_indices", a.col_indices, k_idx, 1, task),
             Load("A.values", a.values, k_idx, 1, task)>>

Accesses_csr_spmm_scalar(a, b, c) ==
    LET M == a.rows
        N == b.cols
        OfRow(acc, i) ==
            ForLoop(LAMBDA sk, k_idx:
                ForLoop(LAMBDA sj, j:
                    sj \o <<Load("B", b.data, Index(b, a.col_indices[k_idx + 1], j), 1, i + 1),
                            Load("C", c.data, Index(c, i, j), 1, i + 1),
                            Store("C", c.data, Index(c, i, j), 1, i + 1)>>,
                    Accesses_nonzero(sk, a, k_idx, i + 1), 0, N, 1),
                Accesses_row_ptrs(acc, a, i, i + 1), a.row_ptrs[i + 1], a.row_ptrs[i + 2], 1)
    IN  ForLoop(LAMBDA ai, i: OfRow(ai, i), Accesses_ZeroFill(c, M * N), 0, M, 1)

Accesses_csr_spmm_avx2(a, b, c) ==
    LET M == a.rows
        N == b.cols
        Block(acc, i, j) ==
            LET remaining == Min(SimdWidth, N - j)
                first == Append(acc, Load("C", c.data, Index(c, i, j), remaining, i + 1))
                loads == ForLoop(LAMBDA sk, k_idx:
                             Append(Accesses_nonzero(sk, a, k_idx, i + 1),
                                    Load("B", b.data, Index(b, a.col_indices[k_idx + 1], j),
                                         remaining, i + 1)),
                             first, a.row_ptrs[i + 1], a.row_ptrs[i + 2], 1)
            IN  Append(loads, Store("C", c.data, Index(c, i, j), remaining, i + 1))
        OfRow(acc, i) ==
            ForLoop(LAMBDA sj, j: Block(sj, i, j), Accesses_row_ptrs(acc, a, i, i + 1),
                    0, N, SimdWidth)
    IN  ForLoop(LAMBDA ai, i: OfRow(ai, i), Accesses_ZeroFill(c, M * N), 0, M, 1)

Accesses_csr_spmm_tiled(a, b, c, tile_cols) ==
    LET M == a.rows
        N == b.cols
        Tile(acc, j0) ==
            LET j_end == Min(j0 + tile_cols, N)
                task == (j0 \div tile_cols) + 1
            IN  ForLoop(LAMBDA si, i:
                    ForLoop(LAMBDA sk, k_idx:
                        ForLoop(LAMBDA sj, j:
                            sj \o <<Load("B", b.data,
                                         Index(b, a.col_indices[k_idx + 1], j), 1, task),
                                    Load("C", c.data, Index(c, i, j), 1, task),
                                    Store("C", c.data, Index(c, i, j), 1, task)>>,
                            Accesses_nonzero(sk, a, k_idx, task), j0, j_end, 1),
                        Accesses_row_ptrs(si, a, i, task),
                        a.row_ptrs[i + 1], a.row_ptrs[i + 2], 1),
                    acc, 0, M, 1)
    IN  ForLoop(LAMBDA aj, j0: Tile(aj, j0), Accesses_ZeroFill(c, M * N), 0, N, tile_cols)

\* col_start = A.col_ptrs[j]; col_end = A.col_ptrs[j + 1]
Accesses_col_ptrs(acc, a, j, task) ==
    acc \o <<Load("A.col_ptrs", a.col_ptrs, j, 1, task),
             Load("A.col_ptrs", a.col_ptrs, j + 1, 1, task)>>

\* i = A.row_indices[k_idx]; a_val = A.values[k_idx]
Accesses_csc_nonzero(acc, a, k_idx, task) ==
    acc \o <<Load("A.row_indices", a.row_indices, k_idx, 1, task),
             Load("A.values", a.values, k_idx, 1, task)>>

\* csc_spmm_scalar (parallel = FALSE) and csc_spmm_omp (parallel = TRUE)
Accesses_csc_spmm_scalar(a, b, c, parallel) ==
    LET M == a.rows
        N == b.cols
        Column(acc, j) ==
            LET task == IF parallel THEN j + 1 ELSE 0
            IN  ForLoop(LAMBDA sk, k_idx:
                    ForLoop(LAMBDA s, k:
                        s \o <<Load("B", b.data, Index(b, j, k), 1, task),
                               Load("C", c.data, Index(c, a.row_indices[k_idx + 1], k), 1, task),
                               Store("C", c.data, Index(c, a.row_indices[k_idx + 1], k), 1,
                                     task)>>,
                        Accesses_csc_nonzero(sk, a, k_idx, task), 0, N, 1),
                    Accesses_col_ptrs(acc, a, j, task), a.col_ptrs[j + 1], a.col_ptrs[j + 2], 1)
    IN  ForLoop(LAMBDA aj, j: Column(aj, j), Accesses_ZeroFill(c, M * N), 0, a.cols, 1)

Accesses_csc_spmm_avx2(a, b, c) ==
    LET M == a.rows
        N == b.cols
        Block(acc, j, k_idx, k) ==
            LET remaining == Min(SimdWidth, N - k)
                i == a.row_indices[k_idx + 1]
            IN  IF remaining = SimdWidth
                THEN acc \o <<Load("C", c.data, Index(c, i, k), SimdWidth, 0),
                              Load("B", b.data, Index(b, j, k), SimdWidth, 0),
                              Store("C", c.data, Index(c, i, k), SimdWidth, 0)>>
                ELSE ForLoop(LAMBDA s, kk:
                         s \o <<Load("B", b.data, Index(b, j, kk), 1, 0),
                                Load("C", c.data, Index(c, i, kk), 1, 0),
                                Store("C", c.data, Index(c, i, kk), 1, 0)>>,
                         acc, k, k + remaining, 1)
        Column(acc, j) ==
            ForLoop(LAMBDA sk, k_idx:
                ForLoop(LAMBDA s, k: Block(s, j, k_idx, k),
                        Accesses_csc_nonzero(sk, a, k_idx, 0), 0, N, SimdWidth),
                Accesses_col_ptrs(acc, a, j, 0), a.col_ptrs[j + 1], a.col_ptrs[j + 2], 1)
    IN  ForLoop(LAMBDA aj, j: Column(aj, j), Accesses_ZeroFill(c, M * N), 0, a.cols, 1)

\* C.data.assign(M * N, 0.0f)
Accesses_assign(c) == <<Store("C", c.data, 0, c.rows * c.cols, 0)>>

\* the loads and stores of a call of kernel, as one thread makes them
Accesses(kernel, a, b, c, tile) ==
    CASE kernel \in {"gemm_scalar", "gemm_omp"} -> Accesses_gemm_scalar(a, b, c)
      [] kernel \in {"gemm_avx2", "gemm_avx2_omp"} ->
             Accesses_assign(c) \o Accesses_gemm_avx2(a, b, c)
      [] kernel = "gemm_tiled" -> Accesses_assign(c) \o Accesses_gemm_tiled(a, b, c, tile)
      [] kernel = "gemm_optimized" ->
             Accesses_assign(c) \o Accesses_gemm_optimized(a, b, c, tile)
      [] kernel \in {"csr_spmm_scalar", "csr_spmm_omp"} ->
             Accesses_csr_spmm_scalar(dense_to_csr(a), b, c)
      [] kernel \in {"csr_spmm_avx2", "csr_spmm_avx2_omp"} ->
             Accesses_csr_spmm_avx2(dense_to_csr(a), b, c)
      [] kernel = "csr_spmm_tiled" -> Accesses_csr_spmm_tiled(dense_to_csr(a), b, c, tile)
      [] kernel = "csc_spmm_scalar" -> Accesses_csc_spmm_scalar(dense_to_csc(a), b, c, FALSE)
      [] kernel = "csc_spmm_avx2" -> Accesses_csc_spmm_avx2(dense_to_csc(a), b, c)
      [] kernel = "csc_spmm_omp" -> Accesses_csc_spmm_scalar(dense_to_csc(a), b, c, TRUE)

\* every element of the access lies inside its array
InBounds(x) == x.first >= 0 /\ x.first + x.lanes <= x.len

\* a store that leaves its array lands in whatever the allocator placed there,
\* possibly in the vector of an operand
Clobbered(Mx) == [Mx EXCEPT !.data[1] = @ + 1]

StrayStore(acc) ==
    \E x \in 1..Len(acc) : acc[x].kind = "store" /\ ~InBounds(acc[x])

InitAccess ==
    /\ \E m \in 1..MaxM, k \in 1..MaxK, n \in NSizes :
          /\ A \in DenseLeftOperands(m, k)
          /\ B \in OmpRightOperands(k, n)
          /\ C \in {Filled(m, n, v) : v \in OutputFills}
    /\ op = "none"
    /\ NoConversion
    /\ NoValidation
    /\ NoBenchmark
    /\ NoTasks
    /\ NoProfiler

\* one kernel is called on conformant operands and returns
Access_Call ==
    /\ op = "none"
    /\ \E kernel \in Kernels, tile \in TileSizes, junk \in JunkValues :
          /\ accesses' = Accesses(kernel, A, B, C, tile)
          /\ C' = Serial(kernel, A, B, C, tile, junk)
          /\ outputs' = <<[kernel |-> kernel, tile |-> tile, entry |-> C, C |-> C']>>
          /\ op' = kernel
          /\ omp_threads' = omp_set_num_threads(kernel, DefaultThreads, omp_threads)
    /\ A' \in IF StrayStore(accesses') THEN {A, Clobbered(A)} ELSE {A}
    /\ B' \in IF StrayStore(accesses') THEN {B, Clobbered(B)} ELSE {B}
    /\ C_entry' = C
    /\ UNCHANGED <<convVars, validateVars, engineVars, mainVars, loops, regionVars,
                   profilerVars>>

NextAccess == Access_Call

SpecAccess == InitAccess /\ [][NextAccess]_vars

\* C21: a kernel call leaves its input operands as they were: A and B hold the
\* same values and shape after the call as before it, and every store of the
\* call writes cells of C, inside C's array.
C21_InputsUnchanged ==
    [][/\ A' = A
       /\ B' = B
       /\ \A x \in 1..Len(accesses') :
             accesses'[x].kind = "store" => accesses'[x].array = "C" /\ InBounds(accesses'[x])]_vars

\* C21 witness: a vectorized kernel has returned from a call on operands whose
\* n is not a multiple of the vector width, having made a vector store and a
\* store in the tail.
C21_Witness ==
    /\ op \in {"gemm_avx2", "gemm_optimized", "csr_spmm_avx2_omp", "csc_spmm_avx2"}
    /\ C.cols = SimdWidth + 1
    /\ \E x \in 1..Len(accesses) :
          accesses[x].kind = "store" /\ accesses[x].array = "C"
          /\ accesses[x].lanes = SimdWidth /\ accesses[x].task # 0
    /\ \E x \in 1..Len(accesses) :
          accesses[x].kind = "store" /\ accesses[x].first = C.rows * C.cols - 1

\* C26: on conformant operands of every size, every load and store of a
\* kernel, the 8-wide ones included, touches only elements inside the array it
\* indexes.
C26_AccessesInBounds ==
    op # "none" => \A x \in 1..Len(accesses) : InBounds(accesses[x])

\* the number of the tile of gemm_optimized that owns the element of C at index
OwnerTile(c, tile_size, index) ==
    TileNumber((index \div c.cols) - ((index \div c.cols) % tile_size),
               (index % c.cols) - ((index % c.cols) % tile_size), c.cols, tile_size)

\* C27: in gemm_optimized every 8-wide load of C made by a task reads only
\* cells of the task's own tile (lanes beyond C's array are left to C26).
C27_LoadsStayInOwnTile ==
    op = "gemm_optimized" =>
        \A x \in 1..Len(accesses) :
            accesses[x].array = "C" /\ accesses[x].kind = "load" =>
                \A index \in accesses[x].first..(accesses[x].first + accesses[x].lanes - 1) :
                    index < accesses[x].len =>
                        OwnerTile(C, outputs[1].tile, index) = accesses[x].task

\* the multiply-add steps of the call: a load of B(k, j) that follows the load
\* of A(i, k)
FmaSteps ==
    {x \in 2..Len(accesses) :
        /\ accesses[x].array = "B" /\ accesses[x].kind = "load"
        /\ accesses[x - 1].array = "A"}

StepI(x) == accesses[x - 1].first \div A.cols

StepK(x) == accesses[x].first \div B.cols

StepJ(x) == accesses[x].first % B.cols

\* the access before the multiply-add step x is the load of the vector at C(i, j)
StartsFromC(x) ==
    /\ x > 2
    /\ accesses[x - 2].array = "C" /\ accesses[x - 2].kind = "load"
    /\ accesses[x - 2].first = Index(C, StepI(x), StepJ(x))
    /\ accesses[x - 2].task = accesses[x].task

\* C22: in gemm_optimized the k-blocks of an output tile are run by one task
\* in ascending order from k = 0: every vector of the tile meets every k once,
\* in ascending order and in the task of its tile; the k-block that starts at
\* 0 does not load C (its accumulator starts from zero), every later k-block
\* starts from the vector loaded from C; and when the kernel returns every
\* cell holds the sum over all k, for every tile size and every K.
C22_ChunksAscendFromZero ==
    op = "gemm_optimized" =>
        LET tile_size == outputs[1].tile
        IN  /\ \A x \in FmaSteps :
                  /\ accesses[x].task = OwnerTile(C, tile_size, Index(C, StepI(x), StepJ(x)))
                  /\ StepK(x) = 0 => ~StartsFromC(x)
                  /\ StepK(x) # 0 /\ StepK(x) % tile_size = 0 => StartsFromC(x)
            /\ \A x \in FmaSteps, y \in FmaSteps :
                  x < y /\ StepI(x) = StepI(y) /\ StepJ(x) = StepJ(y) => StepK(x) < StepK(y)
            /\ \A i \in 0..(C.rows - 1), j \in 0..(C.cols - 1), k \in 0..(A.cols - 1) :
                  (j % tile_size) % SimdWidth = 0 =>
                      \E x \in FmaSteps : StepI(x) = i /\ StepJ(x) = j /\ StepK(x) = k
            /\ \A x \in 1..Len(accesses) :
                  accesses[x].array = "C" /\ accesses[x].kind = "load" =>
                      x + 2 \in FmaSteps /\ StartsFromC(x + 2)
            /\ IsProduct(A, B, C)

\* C22 witness: gemm_optimized has returned from a call whose K is neither a
\* multiple of the tile size nor below it, on an output of several tiles, and
\* a k-block started from the content of C.
C22_Witness ==
    /\ op = "gemm_optimized"
    /\ A.cols > outputs[1].tile /\ A.cols % outputs[1].tile # 0
    /\ C.rows > 1 /\ C.cols = SimdWidth + 1
    /\ \E x \in FmaSteps : StartsFromC(x)
    /\ \E x \in 1..Len(C.data) : C.data[x] # outputs[1].entry.data[x]

(***************************************************************************)
(* A sparse kernel call with both of its loops followed access by access:  *)
(* the loop that zeroes C is a parallel loop of its own, and the           *)
(* accumulation starts when the team has left it.  csc_spmm_scalar and     *)
(* csc_spmm_avx2 accumulate in a serial loop, which one thread runs.       *)
(***************************************************************************)
\* for (size_t i = 0; i < M * N; ++i) C.data[i] = 0.0f;  one iteration per i
Iterations_ZeroFill(n) ==
    ForLoop(LAMBDA q, i: Append(q, <<[kind |-> "store", cell |-> i + 1, val |-> 0]>>),
            <<>>, 0, n, 1)

\* the accumulation of csc_spmm_scalar and csc_spmm_avx2: the updates of
\* csc_spmm_omp, column after column, without the atomic directive
Iterations_csc_spmm_scalar(a, b, c) ==
    LET its == Iterations_csc_spmm_omp(a, b, c)
        ops == ForLoop(LAMBDA s, x: s \o its[x], <<>>, 1, Len(its) + 1, 1)
    IN  <<[x \in 1..Len(ops) |-> [ops[x] EXCEPT !.kind = "add"]]>>

\* the iterations of the accumulation loop of a sparse kernel
Accumulation(kernel, a, b, c, tile, junk) ==
    IF kernel \in {"csc_spmm_scalar", "csc_spmm_avx2"}
    THEN Iterations_csc_spmm_scalar(dense_to_csc(a), b, c)
    ELSE Iterations(kernel, a, b, c, tile, junk)

\* the iterations of a later loop are numbered after those of the loops before
NumberedFrom(its, base) == [x \in 1..Len(its) |-> [id |-> base + x, ops |-> its[x]]]

\* operands of the two-loop calls: every cell of C is nonzero on entry
InitZeroFill ==
    /\ \E m \in 1..MaxOmp, k \in 1..MaxOmp, n \in 1..MaxOmp :
          /\ A \in DenseLeftOperands(m, k)
          /\ B \in OmpRightOperands(k, n)
          /\ C = Filled(m, n, 5)
    /\ op = "none"
    /\ NoConversion
    /\ NoValidation
    /\ NoBenchmark
    /\ NoTasks
    /\ NoProfiler

\* a sparse kernel is called: the team starts on the zero-fill loop
ZeroFill_Call ==
    /\ op = "none"
    /\ \E kernel \in SparseKernels, tile \in TileSizes :
          /\ queue' = Numbered(Iterations_ZeroFill(A.rows * B.cols))
          /\ loops' = <<Accumulation(kernel, A, B, C, tile, 0)>>
          /\ op' = kernel
          /\ omp_threads' = omp_threads
    /\ C_entry' = C
    /\ work' = [t \in Threads |-> Idle]
    /\ completed' = [t \in Threads |-> 0]
    /\ reg' = [t \in Threads |-> Empty]
    /\ writers' = [x \in 1..Len(C.data) |-> {}]
    /\ UNCHANGED <<A, B, C, convVars, validateVars, engineVars, mainVars, outputs, accesses,
                   profilerVars>>

\* the end of the zero-fill loop: the team joins, and the accumulation starts
ZeroFill_Join ==
    /\ TeamStarted
    /\ loops # <<>>
    /\ Barrier
    /\ queue' = NumberedFrom(Head(loops), Len(C.data))
    /\ loops' = Tail(loops)
    /\ work' = [t \in Threads |-> Idle]
    /\ completed' = [t \in Threads |-> 0]
    /\ omp_threads' = omp_set_num_threads(op, DefaultThreads, omp_threads)
    /\ UNCHANGED <<A, B, C, op, convVars, validateVars, engineVars, mainVars, C_entry,
                   outputs, accesses, reg, writers, profilerVars>>

\* the end of the accumulation: the kernel returns
ZeroFill_Return ==
    /\ TeamStarted
    /\ loops = <<>>
    /\ outputs = <<>>
    /\ AllDone
    /\ outputs' = <<[kernel |-> op, C |-> C]>>
    /\ UNCHANGED <<A, B, C, op, convVars, validateVars, omp_threads, engineVars, mainVars,
                   C_entry, accesses, loops, regionVars, profilerVars>>

NextZeroFill ==
    \/ ZeroFill_Call
    \/ Omp_TakeIteration
    \/ Omp_Store
    \/ Omp_Load
    \/ Omp_AddStore
    \/ Omp_Atomic
    \/ ZeroFill_Join
    \/ ZeroFill_Return

SpecZeroFill == InitZeroFill /\ [][NextZeroFill]_vars

\* thread t holds an iteration of the accumulation loop
Accumulating(t) == work[t].id > Len(C.data)

\* C23: in every sparse kernel, under every interleaving of the threads, no
\* thread has started on the accumulation before the zero-fill loop has stored
\* zero in every one of the M*N cells of C; and the kernel returns the product.
C23_ZeroFillBeforeAccumulation ==
    /\ op \in SparseKernels /\ work # <<>> =>
          \A t \in Threads :
              Accumulating(t) => \A x \in 1..Len(C.data) : x \in writers[x]
    /\ op \in SparseKernels /\ Returned => IsProduct(A, B, C)

\* C23 witness: two threads shared the zero-fill of a C of several cells and
\* both are now in the accumulation, one of them between its load and its store.
C23_Witness ==
    /\ op \in {"csr_spmm_omp", "csr_spmm_avx2_omp", "csr_spmm_tiled"}
    /\ Len(C.data) > 1
    /\ work # <<>>
    /\ \A t \in Threads : Accumulating(t)
    /\ \E t \in Threads : reg[t].full
    /\ \E x \in 1..Len(C.data) : C.data[x] # 0

\* the files save_results_csv has written
ResultFiles == {x \in 1..Len(files) : files[x].lines[1] = Header}

\* C24: in every results file of every experiment, the row of a run that
\* succeeded (its time_seconds is not zero) has arithmetic_intensity equal to
\* flops / bytes_accessed, also in the file of
\* experiment_working_set_transitions, which assigns bytes_accessed again after
\* the engine has returned.
C24_IntensityIsFlopsPerByte ==
    \A x \in ResultFiles :
        \A y \in 2..Len(files[x].lines) :
            LET row == files[x].lines[y]
            IN  ~IsZero(row[6]) =>
                    /\ row[10] > 0
                    /\ FEq(row[11], FDiv(Double(row[9]), Double(row[10])))

\* C24 witness: the file of experiment_working_set_transitions holds the rows
\* of successful runs of two sizes, and the file of experiment_roofline_analysis
\* holds the row of a successful sparse run.
C24_Witness ==
    /\ \E x \in ResultFiles :
          /\ files[x].name = "raw_data/working_set_transitions.csv"
          /\ \E y \in 2..Len(files[x].lines), z \in 2..Len(files[x].lines) :
                /\ ~IsZero(files[x].lines[y][6]) /\ ~IsZero(files[x].lines[z][6])
                /\ files[x].lines[y][3] # files[x].lines[z][3]
                /\ files[x].lines[y][10] = working_set_bytes(files[x].lines[y][3])
    /\ \E x \in ResultFiles :
          /\ files[x].name = "raw_data/roofline_analysis.csv"
          /\ \E y \in 2..Len(files[x].lines) :
                files[x].lines[y][1] = "csr" /\ ~IsZero(files[x].lines[y][6])

\* C25: a kernel invoked by the engine runs with the thread count of its
\* configuration: when the kernel has run, the thread count in force, if one
\* was ever set, is config.num_threads (a count that was never set is the
\* default of the OpenMP runtime).
C25_ThreadsOfConfiguration ==
    pc = "stop" /\ dispatch(fn, config) # "none" /\ omp_threads # 0 =>
        omp_threads = config.num_threads

(***************************************************************************)
(* One kernel called repeatedly on the same A and B, the output left as    *)
(* the caller has it: zeroed, or still holding what the call before wrote. *)
(***************************************************************************)

\* the caller passes the same C again, with the cells the last call left in it
Reuse_Output ==
    /\ op # "none"
    /\ Len(outputs) < MaxCalls
    /\ op' = "none"
    /\ UNCHANGED <<A, B, C, convVars, validateVars, omp_threads, engineVars, mainVars,
                   taskVars, profilerVars>>

NextReuse == Repeat_Call \/ Repeat_ZeroOutput \/ Reuse_Output

SpecReuse == InitRepeat /\ [][NextReuse]_vars

\* C28: what a kernel leaves in C does not depend on what C held on entry: all
\* calls of the kernel on the same A and B end with the same C, whatever C
\* held when each of them began.
C28_OutputIndependentOfEntry ==
    \A x \in 1..Len(outputs), y \in 1..Len(outputs) : outputs[x].C = outputs[y].C

\* C28 witness: a kernel that accumulates into C was called on a C filled with
\* a nonzero value and again on the C that call left, and wrote nonzero cells.
C28_Witness ==
    /\ Len(outputs) = 2
    /\ outputs[1].kernel \in {"gemm_tiled", "gemm_optimized", "csr_spmm_avx2",
                              "csc_spmm_scalar"}
    /\ ~IsZeroMatrix(outputs[1].entry)
    /\ ~IsZeroMatrix(outputs[2].entry)
    /\ outputs[1].entry # outputs[2].entry
    /\ C.cols = SimdWidth + 1
    /\ ~IsZeroMatrix(outputs[2].C)

(***************************************************************************)
(* The I/O profiler (Track_B/main.c).  Cycle counts keep the values of the *)
(* program; the number of commands, of iterations and of runs is scaled    *)
(* down.  The products the program computes in 32 bits stay below 2^32 for *)
(* these sizes.  A difference of two unsigned 64-bit numbers is kept as    *)
(* its magnitude and a borrow flag: with a borrow the program's value is   *)
(* 2^64 minus the magnitude.                                               *)
(***************************************************************************)
MAX_COMMANDS == 2       \* 1000 in the program
ITERATIONS == 2         \* 1000 in the program
NUM_RUNS == 2           \* 3 in the program

MAX_LATENCY_SAMPLES == MAX_COMMANDS * ITERATIONS

BLOCK_LAYER_OVERHEAD_PER_CMD == 25000

PCIE_PROTOCOL_OVERHEAD_CYCLES == 1500

CONTROLLER_OVERHEAD_CYCLES == 2000

SSD_READ_LATENCY == 50000       \* nanoseconds (50.0 us)

SSD_WRITE_LATENCY == 30000      \* nanoseconds (30.0 us)

cpu_frequency_ghz == 39         \* tenths of a GHz (3.9)

\* what one timed command may take, in cycles
Latencies == {1, 2, 3}

\* kernel time of the process during one run, in units of 100 ns
KernelTimes == {0, 200, 1000}

\* the files ReadCommandsFromFile may find: up to MAX_COMMANDS reads and writes
CommandFiles ==
    UNION {[1..n -> [opcode : {0, 1}]] : n \in 0..MAX_COMMANDS}

\* the percentiles CalculateLatencyStatistics takes, in thousandths
Percentiles == {500, 900, 950, 990, 999}

\* (ULONGLONG)(microseconds * cpu_frequency_ghz * 1000.0), of a time in ns
MicrosecondsToCycles(nanoseconds) == (nanoseconds * cpu_frequency_ghz) \div 10

EstimateHardwareLatencyCycles(opcode) ==
    LET hardware_latency == IF opcode = 0 THEN SSD_READ_LATENCY \div 16
                                          ELSE SSD_WRITE_LATENCY \div 16
        base_cycles == MicrosecondsToCycles(hardware_latency)
    IN  base_cycles + PCIE_PROTOCOL_OVERHEAD_CYCLES + CONTROLLER_OVERHEAD_CYCLES

\* memset(&stats_array[run], 0, ...), a fresh sample array, sample_count = 0
ZeroStats ==
    [kernel_cycles |-> 0, estimated_block_layer_cycles |-> 0,
     estimated_hardware_cycles |-> 0, io_count |-> 0, read_count |-> 0,
     write_count |-> 0, min_latency_cycles |-> 0, max_latency_cycles |-> 0,
     p50_latency_cycles |-> 0, p90_latency_cycles |-> 0, p95_latency_cycles |-> 0,
     p99_latency_cycles |-> 0, p999_latency_cycles |-> 0,
     latency_samples |-> <<>>, sample_count |-> 0]

\* the block-layer estimate: the fixed cost per command, raised to 60% of the
\* kernel cycles not attributed to hardware when those exceed 1.5 times it
EstimateBlockLayer(io_count, kernel_cycles, hardware_cycles) ==
    LET estimate == io_count * BLOCK_LAYER_OVERHEAD_PER_CMD
        non_hardware_kernel == kernel_cycles - hardware_cycles
    IN  IF kernel_cycles > hardware_cycles /\ 2 * non_hardware_kernel > 3 * estimate
        THEN (non_hardware_kernel * 6) \div 10
        ELSE estimate

\* latencies: what the timed commands of the run took, in order;
\* started, ended: whether the two calls of GetProcessTimes succeeded;
\* kernel_time: the kernel time between them
RunCommandsSoftware(stats, cmds, latencies, started, ended, kernel_time) ==
    LET command_count == Len(cmds)
        counted ==
            [stats EXCEPT
                !.io_count = command_count * ITERATIONS,
                !.read_count =
                    ForLoop(LAMBDA c, i: IF cmds[i + 1].opcode = 0 THEN c + ITERATIONS ELSE c,
                            0, 0, command_count, 1),
                !.write_count =
                    ForLoop(LAMBDA c, i: IF cmds[i + 1].opcode = 0 THEN c ELSE c + ITERATIONS,
                            0, 0, command_count, 1),
                !.latency_samples =
                    ForLoop(LAMBDA s, x: IF Len(s) < MAX_LATENCY_SAMPLES
                                         THEN Append(s, latencies[x + 1]) ELSE s,
                            <<>>, 0, ITERATIONS * command_count, 1),
                !.sample_count = Min(ITERATIONS * command_count, MAX_LATENCY_SAMPLES)]
        kernel_cycles == kernel_time * cpu_frequency_ghz * 10
        hardware_cycles ==
            ForLoop(LAMBDA h, i: h + EstimateHardwareLatencyCycles(cmds[i + 1].opcode) * ITERATIONS,
                    0, 0, command_count, 1)
    IN  IF ~started THEN stats
        ELSE IF ~ended THEN counted
        ELSE [counted EXCEPT
                !.kernel_cycles = kernel_cycles,
                !.estimated_hardware_cycles = hardware_cycles,
                !.estimated_block_layer_cycles =
                    EstimateBlockLayer(counted.io_count, kernel_cycles, hardware_cycles)]

\* (ULONGLONG)(sample_count * 0.50), ... * 0.999: the product of the program's
\* doubles, truncated, is this number for every sample_count up to 1000000
PercentileIndex(sample_count, permille) == (sample_count * permille) \div 1000

\* the comparison of qsort with the order reversed
CompareULONGLONG_Descending(a, b) == a > b

\* CompareULONGLONG(a, b) < 0
CompareULONGLONG(a, b) == a < b

CalculateLatencyStatistics(stats) ==
    IF stats.sample_count = 0 THEN stats
    ELSE LET sorted == SortSeq(stats.latency_samples, CompareULONGLONG)
             n == stats.sample_count
         IN  [stats EXCEPT
                !.latency_samples = sorted,
                !.min_latency_cycles = sorted[1],
                !.max_latency_cycles = sorted[n],
                !.p50_latency_cycles = sorted[PercentileIndex(n, 500) + 1],
                !.p90_latency_cycles = sorted[PercentileIndex(n, 900) + 1],
                !.p95_latency_cycles = sorted[PercentileIndex(n, 950) + 1],
                !.p99_latency_cycles = sorted[PercentileIndex(n, 990) + 1],
                !.p999_latency_cycles = sorted[PercentileIndex(n, 999) + 1]]

\* the sum of a field over the runs that collected samples
SumOfValidRuns(runs, Value(_)) ==
    ForLoop(LAMBDA s, i: IF runs[i + 1].sample_count > 0 THEN s + Value(runs[i + 1]) ELSE s,
            0, 0, Len(runs), 1)

AverageStats(runs) ==
    LET combined ==
            ForLoop(LAMBDA s, i: s \o runs[i + 1].latency_samples, <<>>, 0, Len(runs), 1)
        valid_runs == SumOfValidRuns(runs, LAMBDA r: 1)
        Average(Value(_)) == SumOfValidRuns(runs, Value) \div valid_runs
        summed == [ZeroStats EXCEPT !.latency_samples = combined,
                                    !.sample_count = Len(combined)]
    IN  IF valid_runs = 0 THEN summed
        ELSE [summed EXCEPT
                !.kernel_cycles = Average(LAMBDA r: r.kernel_cycles),
                !.estimated_block_layer_cycles =
                    Average(LAMBDA r: r.estimated_block_layer_cycles),
                !.estimated_hardware_cycles = Average(LAMBDA r: r.estimated_hardware_cycles),
                !.io_count = Average(LAMBDA r: r.io_count),
                !.read_count = Average(LAMBDA r: r.read_count),
                !.write_count = Average(LAMBDA r: r.write_count),
                !.min_latency_cycles = Average(LAMBDA r: r.min_latency_cycles),
                !.max_latency_cycles = Average(LAMBDA r: r.max_latency_cycles),
                !.p50_latency_cycles = Average(LAMBDA r: r.p50_latency_cycles),
                !.p90_latency_cycles = Average(LAMBDA r: r.p90_latency_cycles),
                !.p95_latency_cycles = Average(LAMBDA r: r.p95_latency_cycles),
                !.p99_latency_cycles = Average(LAMBDA r: r.p99_latency_cycles),
                !.p999_latency_cycles = Average(LAMBDA r: r.p999_latency_cycles)]

\* a - b of two ULONGLONG
Difference(a, b) ==
    [borrow |-> a < b, magnitude |-> IF a < b THEN b - a ELSE a - b]

\* the "Remaining kernel cycles" lines of the report
PrintAveragedStatistics(stats) ==
    IF stats.kernel_cycles > 0
    THEN <<Difference(stats.kernel_cycles, stats.estimated_block_layer_cycles)>>
    ELSE <<>>

InitProfiler ==
    /\ A = Null /\ B = Null /\ C = Null
    /\ op = "none"
    /\ NoConversion
    /\ NoValidation
    /\ NoBenchmark
    /\ NoTasks
    /\ commands = <<>> /\ stats_array = <<>> /\ avg_stats = <<>> /\ printed = <<>>
    /\ ppc = "read"

benchVars ==
    <<A, B, C, op, convVars, validateVars, omp_threads, engineVars, mainVars, taskVars>>

\* main: ReadCommandsFromFile; without a command the program ends
Profiler_ReadCommandsFromFile ==
    /\ ppc = "read"
    /\ commands' \in CommandFiles
    /\ ppc' = IF Len(commands') > 0 THEN "run" ELSE "failed"
    /\ UNCHANGED <<benchVars, stats_array, avg_stats, printed>>

\* main: the next measurement run
Profiler_RunCommandsSoftware ==
    /\ ppc = "run"
    /\ \E latencies \in [1..Len(commands) * ITERATIONS -> Latencies],
          started \in BOOLEAN, ended \in BOOLEAN, kernel_time \in KernelTimes :
          stats_array' = Append(stats_array,
                                RunCommandsSoftware(ZeroStats, commands, latencies,
                                                    started, ended, kernel_time))
    /\ ppc' = "calculate"
    /\ UNCHANGED <<benchVars, commands, avg_stats, printed>>

\* main: the latency statistics of the run just made
Profiler_CalculateLatencyStatistics ==
    /\ ppc = "calculate"
    /\ stats_array' = [stats_array EXCEPT
                          ![Len(stats_array)] = CalculateLatencyStatistics(@)]
    /\ ppc' = IF Len(stats_array) < NUM_RUNS THEN "run" ELSE "average"
    /\ UNCHANGED <<benchVars, commands, avg_stats, printed>>

\* main: AverageStats, CalculateLatencyStatistics(&avg_stats) and the report
Profiler_AverageStats ==
    /\ ppc = "average"
    /\ avg_stats' = CalculateLatencyStatistics(AverageStats(stats_array))
    /\ printed' = PrintAveragedStatistics(avg_stats')
    /\ ppc' = "done"
    /\ UNCHANGED <<benchVars, commands, stats_array>>

NextProfiler ==
    \/ Profiler_ReadCommandsFromFile
    \/ Profiler_RunCommandsSoftware
    \/ Profiler_CalculateLatencyStatistics
    \/ Profiler_AverageStats

SpecProfiler == InitProfiler /\ [][NextProfiler]_vars

\* the runs of stats_array whose statistics are complete
CompletedRuns ==
    {x \in 1..Len(stats_array) : x < Len(stats_array) \/ ppc # "calculate"}

\* the counts of a run agree with the commands and its percentiles are in order
ConsistentRun(s) ==
    /\ s.sample_count = s.io_count
    /\ s.io_count = Len(commands) * ITERATIONS
    /\ s.io_count <= MAX_LATENCY_SAMPLES
    /\ s.read_count + s.write_count = s.io_count
    /\ \A p \in Percentiles :
          PercentileIndex(s.sample_count, p) \in 0..(s.sample_count - 1)
    /\ s.min_latency_cycles <= s.p50_latency_cycles
    /\ s.p50_latency_cycles <= s.p90_latency_cycles
    /\ s.p90_latency_cycles <= s.p95_latency_cycles
    /\ s.p95_latency_cycles <= s.p99_latency_cycles
    /\ s.p99_latency_cycles <= s.p999_latency_cycles
    /\ s.p999_latency_cycles <= s.max_latency_cycles

\* C29 as stated: after RunCommandsSoftware and CalculateLatencyStatistics on a
\* run with at least one command, sample_count = io_count = command_count *
\* ITERATIONS <= MAX_LATENCY_SAMPLES, read_count + write_count = io_count, every
\* percentile index lies in [0, sample_count) and min <= p50 <= p90 <= p95 <=
\* p99 <= p99.9 <= max.
C29_AsStated ==
    \A x \in CompletedRuns : Len(commands) > 0 => ConsistentRun(stats_array[x])

\* C29: after RunCommandsSoftware and CalculateLatencyStatistics on a run with
\* at least one command, either the run ended at its first GetProcessTimes and
\* every count, sample and percentile of it is zero, or its counts agree with
\* the commands, every percentile index lies in [0, sample_count) and min <=
\* p50 <= p90 <= p95 <= p99 <= p99.9 <= max.
C29_RunStatistics ==
    \A x \in CompletedRuns :
        Len(commands) > 0 => stats_array[x] = ZeroStats \/ ConsistentRun(stats_array[x])

\* C29 witness: a run of two commands, a read and a write, has its statistics,
\* with samples that differ.
C29_Witness ==
    \E x \in CompletedRuns :
        /\ stats_array[x].io_count = MAX_LATENCY_SAMPLES
        /\ stats_array[x].read_count = ITERATIONS
        /\ stats_array[x].min_latency_cycles < stats_array[x].p50_latency_cycles
        /\ stats_array[x].p50_latency_cycles < stats_array[x].max_latency_cycles

\* C30: the estimated block-layer cycles never exceed the kernel cycles, in
\* every run and in the averaged statistics, and no "Remaining kernel cycles"
\* value of the report is the result of a subtraction that wrapped around.
C30_RemainingKernelCycles ==
    /\ \A x \in CompletedRuns :
          stats_array[x].estimated_block_layer_cycles <= stats_array[x].kernel_cycles
    /\ ppc = "done" => avg_stats.estimated_block_layer_cycles <= avg_stats.kernel_cycles
    /\ \A x \in 1..Len(printed) : ~printed[x].borrow

=============================================================================
